---- MODULE Spec2Model ----
(***************************************************************************)
(* Verification model of the focus task tool: the configuration lexer and *)
(* parser (focus/parser), and the plugin registration and option-hook     *)
(* dispatch engine (focus/plugin/registration.py, focus/registry.py).      *)
(*                                                                         *)
(* Text is modelled as a sequence of one-character strings, so that the    *)
(* lexer, the writer's escaping and the NAME regular expression work on    *)
(* characters exactly as the Python code does.                             *)
(***************************************************************************)
EXTENDS Integers, Sequences, FiniteSets, TLC

VARIABLES
    stream,     \* SettingLexer._tokenize: the characters not yet consumed
    lexer,      \* SettingLexer: _tokens, _token_info and _state_info
    lexSrc,     \* where the stream came from: the writer (with the value) or raw text
    ast,        \* SettingParser._ast: <<header, options, blocks>>
    block_map,  \* SettingParser._block_map: block name -> index in the blocks list
    err,        \* the exception the last parser call raised ("" when it returned)
    lastOp,     \* the last parser call, with its arguments
    written,    \* the text the last call wrote to its stream (writestream only)
    history,    \* the kinds of parser calls made on this object so far
    inputs,     \* the documents still to be read in SpecParse
    registered,     \* registration._registered: the master plugin registry
    option_hooks,   \* registration._option_hooks
    command_hooks,  \* registration._command_hooks
    event_hooks,    \* registration._event_hooks: event -> call chain
    created,        \* how many instances of each plugin class were constructed
    loaded,         \* the plugin classes defined so far
    lastCall,       \* the last call into registration.py and what it did
    sup,            \* the supervisor process: Focusd fields, uid, call stack, signals
    children,       \* Focusd._task_runner and Focusd._command_server as processes
    pipe,           \* Focusd._pipe: the supervisor's two ends of the shared pipe
    task,           \* the Task: active-task marker, pid file and the Task object
    supLog,         \* what the supervisor did, in order
    runner,         \* the task runner process: TaskRunner fields, call stack, signals
    chan,           \* the shared pipe as the task runner and the command server see it
    runLog,         \* the run_root sends and receives of the task runner, in order
    server          \* the command server process and the message it handles

lexVars == <<stream, lexer, lexSrc>>

parserVars == <<ast, block_map, err, lastOp, written, history, inputs>>

regVars == <<registered, option_hooks, command_hooks, event_hooks, created, loaded, lastCall>>

supVars == <<sup, children, pipe, task, supLog>>

runnerVars == <<runner, chan, runLog>>

serverVars == <<server>>

daemonVars == <<supVars, runnerVars, serverVars>>

libVars == <<lexVars, parserVars, regVars>>

vars == <<stream, lexer, lexSrc, ast, block_map, err, lastOp, written, history, inputs,
          registered, option_hooks, command_hooks, event_hooks, created, loaded, lastCall,
          sup, children, pipe, task, supLog, runner, chan, runLog, server>>

----------------------------------------------------------------------------
(* Bounds of the model. *)

\* longest value string handed to the writer's serialize_values
MaxValueLen == 3

\* longest raw text handed to the lexer directly
MaxRawLen == 4

----------------------------------------------------------------------------
(* focus/parser/lexer.py: character classes and lexer states. *)

WHITESPACE == {" ", "\n", "\r", "\t"}

COMMENT_START == "#"

NEWLINES == {"\n", "\r"}

TOKENS == {"{", "}", ",", ";"}

QUOTES == {"'", "\""}

ESCAPE == "\\"

SPACE == " "

ST_TOKEN == 1

ST_STRING == 2

ST_COMMENT == 3

\* Python's None for a character-valued field (last_quote)
NoQuote == ""

\* the characters texts are drawn from
Chars == {"a", ESCAPE, "\"", "'", ",", ";", "{", SPACE, "\t", "\n", COMMENT_START}

RECURSIVE StringsUpTo(_)
\* all texts over Chars of length at most n
StringsUpTo(n) ==
    IF n = 0 THEN {<<>>}
    ELSE LET shorter == StringsUpTo(n - 1)
         IN  shorter \cup {Append(s, c) : s \in {t \in shorter : Len(t) = n - 1}, c \in Chars}

----------------------------------------------------------------------------
(* Evaluation order.  Bind(v, F) is F(v) with v computed once, before F's  *)
(* body: Python evaluates a statement's result once and then uses it, and  *)
(* the recursive rules below rely on that to stay linear.                  *)

Bind(v, F(_)) == CHOOSE r \in {F(x) : x \in {v}} : TRUE

----------------------------------------------------------------------------
(* focus/parser/lexer.py: SettingLexer. *)

\* SettingLexer._tokenize, the reset before the loop: no tokens, line 1,
\* empty token buffer, TOKEN state.
LexerInit ==
    [tokens |-> <<>>, chars |-> <<>>, line_no |-> 1,
     state |-> ST_TOKEN, last_quote |-> NoQuote, double_esc |-> FALSE]

\* the _state setter: replaces the whole state info
SetState(lx, st) ==
    [lx EXCEPT !.state = st, !.last_quote = NoQuote, !.double_esc = FALSE]

\* the _escaped property: whether the buffer ends with the escape character,
\* which it then swallows. Returns the answer and the buffer afterwards.
Escaped(chars) ==
    IF Len(chars) > 0 /\ chars[Len(chars)] = ESCAPE
    THEN [hit |-> TRUE, chars |-> SubSeq(chars, 1, Len(chars) - 1)]
    ELSE [hit |-> FALSE, chars |-> chars]

\* _new_token(chars): appends a token at the current line; with no chars
\* given it takes the token buffer; nothing is appended for an empty text.
NewToken(lx, given) ==
    LET cs == IF given = <<>> THEN lx.chars ELSE given
    IN  IF cs # <<>>
        THEN [lx EXCEPT !.tokens = Append(@, <<lx.line_no, cs>>), !.chars = <<>>]
        ELSE lx

\* _process_newline
ProcessNewline(lx, char) ==
    LET a == IF lx.state = ST_STRING
             THEN [lx EXCEPT !.chars = Append(@, char)]
             ELSE NewToken(lx, <<>>)
        b == [a EXCEPT !.line_no = @ + 1]
    IN  IF lx.state = ST_COMMENT THEN SetState(b, ST_TOKEN) ELSE b

\* _process_string. The end-of-string test is
\*   char == last_quote and not _escaped or _double_escaped
\* which Python reads as (A and not B) or C, evaluating B (and swallowing the
\* escape character) only when A holds.
ProcessString(lx, char) ==
    IF char \in QUOTES
    THEN LET esc == IF char = lx.last_quote
                    THEN Escaped(lx.chars)
                    ELSE [hit |-> FALSE, chars |-> lx.chars]
             popped == [lx EXCEPT !.chars = esc.chars]
             ends == (char = lx.last_quote /\ ~esc.hit) \/ lx.double_esc
         IN  IF ends
             THEN SetState(NewToken(popped, <<>>), ST_TOKEN)
             ELSE [popped EXCEPT !.chars = Append(@, char)]
    ELSE IF char = ESCAPE
    THEN IF ~lx.double_esc
         THEN LET esc == Escaped(lx.chars)
              IN  [lx EXCEPT !.double_esc = esc.hit, !.chars = Append(esc.chars, char)]
         ELSE [lx EXCEPT !.chars = Append(@, char)]
    ELSE [lx EXCEPT !.double_esc = FALSE, !.chars = Append(@, char)]

\* _process_tokens
ProcessTokens(lx, char) ==
    IF char \in WHITESPACE \/ char = COMMENT_START \/ char \in QUOTES \/ char \in TOKENS
    THEN LET checks == char = SPACE \/ char \in TOKENS \/ char \in QUOTES
             esc == IF checks THEN Escaped(lx.chars)
                    ELSE [hit |-> FALSE, chars |-> lx.chars]
             popped == [lx EXCEPT !.chars = esc.chars]
             add_token == ~esc.hit
             moved == IF char = COMMENT_START THEN SetState(popped, ST_COMMENT)
                      ELSE IF char \in QUOTES /\ ~esc.hit
                      THEN [SetState(popped, ST_STRING) EXCEPT !.last_quote = char]
                      ELSE popped
         IN  IF add_token
             THEN LET stored == NewToken(moved, <<>>)
                  IN  IF char \in TOKENS THEN NewToken(stored, <<char>>) ELSE stored
             ELSE [moved EXCEPT !.chars = Append(@, char)]
    ELSE [lx EXCEPT !.chars = Append(@, char)]

\* the body of _tokenize's loop: one character
ProcessChar(lx, char) ==
    IF char \in NEWLINES THEN ProcessNewline(lx, char)
    ELSE IF lx.state = ST_STRING THEN ProcessString(lx, char)
    ELSE IF lx.state = ST_TOKEN THEN ProcessTokens(lx, char)
    ELSE lx

RECURSIVE TokenizeRange(_, _, _, _)
\* _tokenize's loop over the characters text[from..to], in order (the range
\* is halved so that the evaluation nests only logarithmically deep)
TokenizeRange(lx, text, from, to) ==
    IF from > to THEN lx
    ELSE IF from = to THEN Bind(lx, LAMBDA l : ProcessChar(l, text[from]))
    ELSE Bind((from + to) \div 2, LAMBDA mid :
            Bind(TokenizeRange(lx, text, from, mid), LAMBDA left :
                TokenizeRange(left, text, mid + 1, to)))

\* _tokenize on a whole text; the lexer object afterwards
Tokenize(text) == TokenizeRange(LexerInit, text, 1, Len(text))

\* the texts of a token list, without the line numbers
TokenTexts(tokens) == [i \in 1..Len(tokens) |-> tokens[i][2]]

----------------------------------------------------------------------------
(* focus/parser/parser.py: the writer's escaping of one value. *)

RECURSIVE ReplaceChar(_, _, _)
\* str.replace(old, new) for a one-character old
ReplaceChar(text, old, new) ==
    IF text = <<>> THEN <<>>
    ELSE (IF Head(text) = old THEN new ELSE <<Head(text)>>)
         \o ReplaceChar(Tail(text), old, new)

\* serialize_values for one value: backslashes doubled, then double quotes
\* escaped, then the whole wrapped in double quotes
SerializeValue(v) ==
    <<"\"">>
    \o ReplaceChar(ReplaceChar(v, ESCAPE, <<ESCAPE, ESCAPE>>), "\"", <<ESCAPE, "\"">>)
    \o <<"\"">>

----------------------------------------------------------------------------
(* focus/parser/parser.py: SettingParser, the grammar rules.  A token is   *)
(* <<line_no, text>>; a rule returns whether it succeeded (a ParseError    *)
(* otherwise), its value and the tokens left in the lexer.                 *)

\* Python's None (and the empty string, equally falsy) for a text-valued field
None == <<>>

NameStartChars ==
    {"a", "b", "c", "d", "e", "f", "g", "h", "i", "j", "k", "l", "m", "n", "o",
     "p", "q", "r", "s", "t", "u", "v", "w", "x", "y", "z",
     "A", "B", "C", "D", "E", "F", "G", "H", "I", "J", "K", "L", "M", "N", "O",
     "P", "Q", "R", "S", "T", "U", "V", "W", "X", "Y", "Z", "_"}

NameChars == NameStartChars \cup {"0", "1", "2", "3", "4", "5", "6", "7", "8", "9"}

\* RE_NAME.match(text) for [a-zA-Z_][a-zA-Z0-9_]*$ : Python's $ also matches
\* just before one newline that ends the text
RE_NAME(text) ==
    /\ Len(text) >= 1
    /\ text[1] \in NameStartChars
    /\ LET body == IF text[Len(text)] = "\n" THEN Len(text) - 1 ELSE Len(text)
       IN  \A i \in 2..body : text[i] \in NameChars

Failed == [ok |-> FALSE, val |-> <<>>, rest |-> <<>>]

\* _get_token(regex): the next token, which must match RE_NAME when asked
GetToken(ts, regex) ==
    IF ts = <<>> THEN Failed
    ELSE IF regex /\ ~RE_NAME(ts[1][2]) THEN Failed
    ELSE [ok |-> TRUE, val |-> ts[1][2], rest |-> Tail(ts)]

\* _lookahead_token(count): the text of the count-th token ahead, or of the
\* last one when there are fewer, or None when there is none
LookaheadToken(ts, count) ==
    IF ts = <<>> THEN None
    ELSE ts[IF count < Len(ts) THEN count ELSE Len(ts)][2]

\* _expect_token(expected)
ExpectToken(ts, expected) ==
    IF ts = <<>> \/ ts[1][2] # expected THEN Failed
    ELSE [ok |-> TRUE, val |-> expected, rest |-> Tail(ts)]

\* _expect_empty
ExpectEmpty(ts) == ts = <<>>

RECURSIVE RuleValueMore(_, _)
\* _rule_value, the loop over further terms
RuleValueMore(terms, ts) ==
    IF LookaheadToken(ts, 1) = <<",">>
    THEN Bind(GetToken(GetToken(ts, FALSE).rest, FALSE), LAMBDA term :
            IF ~term.ok THEN Failed
            ELSE RuleValueMore(Append(terms, term.val), term.rest))
    ELSE [ok |-> TRUE, val |-> terms, rest |-> ts]

\* _rule_value : TERM (',' TERM)*
RuleValue(ts) ==
    Bind(GetToken(ts, FALSE), LAMBDA first :
        IF ~first.ok THEN Failed ELSE RuleValueMore(<<first.val>>, first.rest))

\* _rule_option : NAME value ';'
RuleOption(ts) ==
    Bind(GetToken(ts, TRUE), LAMBDA name :
        IF ~name.ok THEN Failed
        ELSE Bind(RuleValue(name.rest), LAMBDA value :
                IF ~value.ok THEN Failed
                ELSE Bind(ExpectToken(value.rest, <<";">>), LAMBDA semi :
                        IF ~semi.ok THEN Failed
                        ELSE [ok |-> TRUE, val |-> <<name.val, value.val>>,
                              rest |-> semi.rest])))

RECURSIVE RuleBlockOptions(_, _)
\* _rule_block, the loop over the block's options
RuleBlockOptions(options, ts) ==
    IF LookaheadToken(ts, 1) # <<"}">>
    THEN Bind(RuleOption(ts), LAMBDA opt :
            IF ~opt.ok THEN Failed
            ELSE RuleBlockOptions(Append(options, opt.val), opt.rest))
    ELSE [ok |-> TRUE, val |-> options, rest |-> ts]

\* _rule_block : NAME '{' option* '}'
RuleBlock(ts) ==
    Bind(GetToken(ts, TRUE), LAMBDA name :
        IF ~name.ok THEN Failed
        ELSE Bind(ExpectToken(name.rest, <<"{">>), LAMBDA open :
                IF ~open.ok THEN Failed
                ELSE Bind(RuleBlockOptions(<<>>, open.rest), LAMBDA opts :
                        IF ~opts.ok THEN Failed
                        ELSE Bind(ExpectToken(opts.rest, <<"}">>), LAMBDA close :
                                IF ~close.ok THEN Failed
                                ELSE [ok |-> TRUE, val |-> <<name.val, opts.val>>,
                                      rest |-> close.rest]))))

\* the empty block index map
EmptyMap == [n \in {} |-> 0]

\* _rule_container, replacing the duplicate block definitions after the loop:
\* every held block goes to the list position the index map has for its name
ReplaceDupes_Skip(blocks, dupe_blocks, bmap) == blocks

ReplaceDupes(blocks, dupe_blocks, bmap) ==
    [i \in 1..Len(blocks) |->
        IF \E n \in DOMAIN dupe_blocks : bmap[n] = i - 1
        THEN dupe_blocks[CHOOSE n \in DOMAIN dupe_blocks : bmap[n] = i - 1]
        ELSE blocks[i]]

\* _rule_container, a block parsed inside the loop: a name the index map
\* already has is held for replacement, a new name is indexed and appended
StoreBlock(c, block) ==
    IF block[1] \in DOMAIN c.bmap
    THEN [c EXCEPT !.dupe_blocks =
            [n \in DOMAIN @ \cup {block[1]} |-> IF n = block[1] THEN block ELSE @[n]]]
    ELSE [c EXCEPT !.bmap = @ @@ (block[1] :> Len(c.blocks)),
                   !.blocks = Append(@, block)]

RECURSIVE ContainerLoop(_, _)
\* _rule_container, the loop over options and blocks. c holds the loop's
\* locals (options, blocks, dupe_blocks), the index map and the tokens left.
ContainerLoop(c, ts) ==
    IF LookaheadToken(ts, 1) # <<"}">>
    THEN IF LookaheadToken(ts, 2) = <<"{">>
         THEN Bind(RuleBlock(ts), LAMBDA block :
                 IF ~block.ok THEN [c EXCEPT !.ok = FALSE]
                 ELSE Bind(StoreBlock(c, block.val), LAMBDA c2 :
                         ContainerLoop(c2, block.rest)))
         ELSE Bind(RuleOption(ts), LAMBDA opt :
                 IF ~opt.ok THEN [c EXCEPT !.ok = FALSE]
                 ELSE Bind([c EXCEPT !.options = Append(@, opt.val)], LAMBDA c2 :
                         ContainerLoop(c2, opt.rest)))
    ELSE [c EXCEPT !.rest = ts]

\* _rule_container, after the header and the opening brace
ContainerBody(type_name, ts, bmap) ==
    Bind(ContainerLoop([ok |-> TRUE, options |-> <<>>, blocks |-> <<>>,
                        dupe_blocks |-> EmptyMap, bmap |-> bmap, rest |-> <<>>], ts),
         LAMBDA c :
            IF ~c.ok THEN [ok |-> FALSE, ast |-> <<>>, bmap |-> c.bmap]
            ELSE Bind(ExpectToken(c.rest, <<"}">>), LAMBDA close :
                    IF ~close.ok \/ ~ExpectEmpty(close.rest)
                    THEN [ok |-> FALSE, ast |-> <<>>, bmap |-> c.bmap]
                    ELSE [ok |-> TRUE,
                          ast |-> <<type_name, c.options,
                                    ReplaceDupes(c.blocks, c.dupe_blocks, c.bmap)>>,
                          bmap |-> c.bmap]))

\* _rule_container : NAME '{' (option | block)* '}' EOF, started with index
\* map bmap. Returns ok, the AST <<type_name, options, blocks>> and the index
\* map as the rule left it (also when it raised).
RuleContainer(ts, bmap) ==
    Bind(GetToken(ts, TRUE), LAMBDA type_name :
        IF ~type_name.ok THEN [ok |-> FALSE, ast |-> <<>>, bmap |-> bmap]
        ELSE Bind(ExpectToken(type_name.rest, <<"{">>), LAMBDA open :
                IF ~open.ok THEN [ok |-> FALSE, ast |-> <<>>, bmap |-> bmap]
                ELSE ContainerBody(type_name.val, open.rest, bmap)))

----------------------------------------------------------------------------
(* focus/parser/parser.py: SettingParser.writestream, the text written.    *)

RECURSIVE SerializeValues(_)
\* serialize_values: "value","value2","value3"
SerializeValues(values) ==
    IF values = <<>> THEN <<>>
    ELSE IF Len(values) = 1 THEN SerializeValue(values[1])
    ELSE SerializeValue(values[1]) \o <<",">> \o SerializeValues(Tail(values))

Indent(n) == [i \in 1..n |-> SPACE]

\* os.linesep
LineSep == <<"\n">>

RECURSIVE WriteOptions(_, _)
\* the option lines, each indented by n spaces
WriteOptions(n, options) ==
    IF options = <<>> THEN <<>>
    ELSE Indent(n) \o options[1][1] \o <<SPACE>> \o SerializeValues(options[1][2])
         \o <<";">> \o LineSep \o WriteOptions(n, Tail(options))

RECURSIVE WriteBlocks(_)
WriteBlocks(blocks) ==
    IF blocks = <<>> THEN <<>>
    ELSE Indent(4) \o blocks[1][1] \o <<SPACE, "{">> \o LineSep
         \o WriteOptions(8, blocks[1][2])
         \o Indent(4) \o <<"}">> \o LineSep
         \o WriteBlocks(Tail(blocks))

\* everything writestream writes for header, options and blocks
WriteText(header, options, blocks) ==
    header \o <<SPACE, "{">> \o LineSep
    \o WriteOptions(4, options)
    \o WriteBlocks(blocks)
    \o <<"}">> \o LineSep

----------------------------------------------------------------------------
(* Inputs: names, values and configuration documents.                      *)

\* most items (options and blocks) in a generated document
MaxItems == 3

\* most options the mutation API puts into one AST
MaxOptions == 2

Header == <<"h">>

BlockA == <<"A">>

BlockB == <<"B">>

OptX == <<"x">>

OptY == <<"y">>

\* not a NAME
BadName == <<"1", "x">>

BlockNames == {BlockA, BlockB}

\* the (name, values) pairs add_option is called with: a plain value, a value
\* holding a backslash, two values, and the two calls that raise ValueError
OptionArgs ==
    {<<OptX, <<<<"1">>>>>>, <<OptX, <<<<ESCAPE>>>>>>, <<OptY, <<<<"1">>, <<"2">>>>>>,
     <<BadName, <<<<"1">>>>>>, <<OptX, <<>>>>}

RECURSIVE JoinTerms(_)
JoinTerms(values) ==
    IF Len(values) = 1 THEN values[1]
    ELSE values[1] \o <<",">> \o JoinTerms(Tail(values))

\* an option in the file format, values unquoted: name v1,v2;
RawOption(opt) == opt[1] \o <<SPACE>> \o JoinTerms(opt[2]) \o <<";">>

RECURSIVE RawOptions(_)
RawOptions(options) ==
    IF options = <<>> THEN <<>>
    ELSE RawOption(options[1]) \o <<SPACE>> \o RawOptions(Tail(options))

\* a block in the file format: name { option* }
RawBlock(block) == block[1] \o <<"{">> \o RawOptions(block[2]) \o <<"}">>

OptionItem(opt) == [kind |-> "option", val |-> opt, text |-> RawOption(opt)]

BlockItem(block) == [kind |-> "block", val |-> block, text |-> RawBlock(block)]

\* a fragment that is no option and no block
RawItem(text) == [kind |-> "raw", val |-> <<>>, text |-> text]

OptX1 == <<OptX, <<<<"1">>>>>>

OptY12 == <<OptY, <<<<"1">>, <<"2">>>>>>

\* what documents are made of: an option, blocks A and B with differing
\* contents, and malformed fragments (a value missing, a stray closing brace)
Items ==
    {OptionItem(OptX1),
     BlockItem(<<BlockA, <<OptX1>>>>), BlockItem(<<BlockA, <<OptY12>>>>),
     BlockItem(<<BlockA, <<>>>>),
     BlockItem(<<BlockB, <<OptX1>>>>), BlockItem(<<BlockB, <<OptY12, OptX1>>>>),
     RawItem(<<"x", ";">>), RawItem(<<"}">>)}

RECURSIVE ItemSeqs(_)
\* the item sequences of length at most n
ItemSeqs(n) ==
    IF n = 0 THEN {<<>>}
    ELSE LET shorter == ItemSeqs(n - 1)
         IN  shorter \cup {Append(s, i) : s \in {t \in shorter : Len(t) = n - 1}, i \in Items}

RECURSIVE ItemsText(_)
ItemsText(items) ==
    IF items = <<>> THEN <<>>
    ELSE items[1].text \o LineSep \o ItemsText(Tail(items))

\* the document  h { items }  as the stream readstream is given
Document(items) ==
    [items |-> items,
     text |-> Header \o <<SPACE, "{">> \o LineSep \o ItemsText(items) \o <<"}">> \o LineSep]

Documents == {Document(items) : items \in ItemSeqs(MaxItems)}

\* the documents read between calls of the mutation API: a well-formed one,
\* one with a repeated block, one that fails after a block, one that fails at once
SmallDocuments ==
    {Document(<<OptionItem(OptX1), BlockItem(<<BlockA, <<OptY12>>>>)>>),
     Document(<<BlockItem(<<BlockA, <<OptX1>>>>), BlockItem(<<BlockB, <<OptX1>>>>),
                BlockItem(<<BlockA, <<>>>>)>>),
     Document(<<BlockItem(<<BlockB, <<OptX1>>>>), RawItem(<<"x", ";">>)>>),
     Document(<<RawItem(<<"}">>)>>)}

----------------------------------------------------------------------------
(* focus/parser/parser.py: SettingParser, the object and its calls.        *)

\* _reset: header None, no options, no blocks
EmptyAst == <<None, <<>>, <<>>>>

\* the state of a SettingParser right after __init__
ParserInit ==
    /\ ast = EmptyAst
    /\ block_map = EmptyMap
    /\ err = ""
    /\ lastOp = [op |-> "init", items |-> <<>>]
    /\ written = <<>>
    /\ history = [built |-> TRUE, parsed |-> FALSE]

\* readstream's first statement, self._reset(), applied to the parser state
AfterReset_NoReset(old) == old

AfterReset(old) == [ast |-> EmptyAst, block_map |-> EmptyMap]

\* what parsing each of SmallDocuments gives when the block map is empty
SmallDocumentsParsed ==
    [d \in SmallDocuments |-> RuleContainer(Tokenize(d.text).tokens, EmptyMap)]

\* lexer.readstream and _parse on a document, the block map being bmap at
\* the start; a document of SmallDocuments is parsed once for all its reads
Parse(doc, bmap) ==
    IF bmap = EmptyMap /\ doc \in SmallDocuments THEN SmallDocumentsParsed[doc]
    ELSE RuleContainer(Tokenize(doc.text).tokens, bmap)

\* readstream(stream) on a document doc (its text is the stream's content):
\* reset, tokenize, parse; the AST is assigned only when the parse returns,
\* and a ParseError propagates to the caller.
Readstream(doc) ==
    \E base \in {AfterReset([ast |-> ast, block_map |-> block_map])} :
    \E r \in {Parse(doc, base.block_map)} :
        /\ ast' = IF r.ok THEN r.ast ELSE base.ast
        /\ block_map' = r.bmap
        /\ err' = IF r.ok THEN "" ELSE "ParseError"
        /\ lastOp' = [op |-> "readstream", items |-> doc.items]
        /\ history' = [built |-> FALSE,
                       parsed |-> history.parsed \/ (r.ok /\ r.ast[3] # <<>>)]
        /\ written' = <<>>

\* writestream(stream, header): ValueError for a missing or invalid header;
\* otherwise the text is written and the header stored, or the stream fails
\* with IOError and the call returns False.
Writestream(header, io_ok) ==
    LET h == IF header # None THEN header ELSE ast[1]
    IN  /\ lastOp' = [op |-> "writestream", items |-> <<>>]
        /\ UNCHANGED <<block_map, history>>
        /\ IF h = None \/ ~RE_NAME(h)
           THEN /\ err' = "ValueError"
                /\ written' = <<>>
                /\ UNCHANGED ast
           ELSE IF ~io_ok
           THEN /\ err' = "False"
                /\ written' = <<>>
                /\ UNCHANGED ast
           ELSE /\ err' = ""
                /\ written' = WriteText(h, ast[2], ast[3])
                /\ ast' = [ast EXCEPT ![1] = h]

\* the options held by the whole AST
RECURSIVE BlockOptionCount(_)
BlockOptionCount(blocks) ==
    IF blocks = <<>> THEN 0 ELSE Len(blocks[1][2]) + BlockOptionCount(Tail(blocks))

TotalOptions(a) == Len(a[2]) + BlockOptionCount(a[3])

\* add_option without its test of the values
AddOption_NoValueCheck(block, name, values) ==
    /\ lastOp' = [op |-> "add_option", items |-> <<name, values, block>>]
    /\ history' = history
    /\ written' = <<>>
    /\ UNCHANGED block_map
    /\ IF ~RE_NAME(name)
       THEN err' = "ValueError" /\ UNCHANGED ast
       ELSE IF block # None
       THEN IF block \notin DOMAIN block_map
            THEN err' = "ValueError" /\ UNCHANGED ast
            ELSE LET block_idx == block_map[block]
                 IN  IF block_idx >= Len(ast[3])
                     THEN err' = "IndexError" /\ UNCHANGED ast
                     ELSE /\ err' = ""
                          /\ ast' = [ast EXCEPT ![3][block_idx + 1][2] =
                                                    Append(@, <<name, values>>)]
       ELSE /\ err' = ""
            /\ ast' = [ast EXCEPT ![2] = Append(@, <<name, values>>)]

\* add_option(block, name, *values); the call is recorded with its name,
\* its values and its block
AddOption(block, name, values) ==
    /\ lastOp' = [op |-> "add_option", items |-> <<name, values, block>>]
    /\ history' = history
    /\ written' = <<>>
    /\ UNCHANGED block_map
    /\ IF ~RE_NAME(name) \/ values = <<>>
       THEN err' = "ValueError" /\ UNCHANGED ast
       ELSE IF block # None
       THEN IF block \notin DOMAIN block_map
            THEN err' = "ValueError" /\ UNCHANGED ast
            ELSE LET block_idx == block_map[block]
                 IN  IF block_idx >= Len(ast[3])
                     THEN err' = "IndexError" /\ UNCHANGED ast
                     ELSE /\ err' = ""
                          /\ ast' = [ast EXCEPT ![3][block_idx + 1][2] =
                                                    Append(@, <<name, values>>)]
       ELSE /\ err' = ""
            /\ ast' = [ast EXCEPT ![2] = Append(@, <<name, values>>)]

\* the list without its i-th element (list.pop(i - 1))
Pop(list, i) == SubSeq(list, 1, i - 1) \o SubSeq(list, i + 1, Len(list))

\* the position of the first option called name, 0 when there is none
FirstNamed(options, name) ==
    IF \E i \in 1..Len(options) : options[i][1] = name
    THEN CHOOSE i \in 1..Len(options) :
            /\ options[i][1] = name
            /\ \A j \in 1..(i - 1) : options[j][1] # name
    ELSE 0

\* remove_option(block, name): removes the first option of that name; the
\* call is recorded with its name and its block
RemoveOption(block, name) ==
    /\ lastOp' = [op |-> "remove_option", items |-> <<name, block>>]
    /\ history' = [history EXCEPT !.built = FALSE]
    /\ written' = <<>>
    /\ UNCHANGED block_map
    /\ IF block # None
       THEN IF block \notin DOMAIN block_map
            THEN err' = "ValueError" /\ UNCHANGED ast
            ELSE LET block_idx == block_map[block]
                 IN  IF block_idx >= Len(ast[3])
                     THEN err' = "IndexError" /\ UNCHANGED ast
                     ELSE LET item_idx == FirstNamed(ast[3][block_idx + 1][2], name)
                          IN  IF item_idx = 0
                              THEN err' = "ValueError" /\ UNCHANGED ast
                              ELSE /\ err' = ""
                                   /\ ast' = [ast EXCEPT ![3][block_idx + 1][2] =
                                                             Pop(@, item_idx)]
       ELSE LET item_idx == FirstNamed(ast[2], name)
            IN  IF item_idx = 0
                THEN err' = "ValueError" /\ UNCHANGED ast
                ELSE /\ err' = ""
                     /\ ast' = [ast EXCEPT ![2] = Pop(@, item_idx)]

\* add_block(name): the index is recorded first, then the block appended;
\* the call is recorded with its name
AddBlock(name) ==
    /\ lastOp' = [op |-> "add_block", items |-> <<name>>]
    /\ history' = history
    /\ written' = <<>>
    /\ IF ~RE_NAME(name) \/ name \in DOMAIN block_map
       THEN err' = "ValueError" /\ UNCHANGED <<ast, block_map>>
       ELSE /\ err' = ""
            /\ block_map' = block_map @@ (name :> Len(ast[3]))
            /\ ast' = [ast EXCEPT ![3] = Append(@, <<name, <<>>>>)]

\* remove_block(name): pops the block at the recorded index, then deletes the
\* name from the index map; the other names keep their recorded indexes
RemoveBlock(name) ==
    /\ lastOp' = [op |-> "remove_block", items |-> <<>>]
    /\ history' = [history EXCEPT !.built = FALSE]
    /\ written' = <<>>
    /\ IF name \notin DOMAIN block_map
       THEN err' = "ValueError" /\ UNCHANGED <<ast, block_map>>
       ELSE LET block_idx == block_map[name]
            IN  IF block_idx >= Len(ast[3])
                THEN err' = "IndexError" /\ UNCHANGED <<ast, block_map>>
                ELSE /\ err' = ""
                     /\ ast' = [ast EXCEPT ![3] = Pop(@, block_idx + 1)]
                     /\ block_map' = [n \in DOMAIN block_map \ {name} |-> block_map[n]]

----------------------------------------------------------------------------
(* Plugin classes (focus/plugin/base.py): what each class declares.  A     *)
(* class is identified by its name.                                        *)

\* most option occurrences in one AST handed to run_option_hooks
MaxAstOptions == 2

\* disable() is called on instances of a class of which at most this many exist
MaxInstances == 1

Classes == {"P", "Q"}

\* the classes of the dispatch-order specification
DispatchClasses == Classes \cup {"R"}

\* Plugin.name
Name(cls) == cls

OptZ == <<"z">>

CmdP == <<"p">>

CmdQ == <<"q">>

\* Plugin.command: P has the command p, Q has none
Command(cls) == IF cls = "P" THEN CmdP ELSE None

EVENT_VALS == {"task_start", "task_run", "task_end"}

\* Plugin.events
Events(cls) ==
    IF cls = "P" THEN <<"task_start">>
    ELSE IF cls = "Q" THEN <<"task_start", "task_end", "task_stop">>
    ELSE <<>>

\* Plugin.options: P takes the top-level option x, Q takes option x of
\* block A and no duplicates of it, R takes option x of block B
Options(cls) ==
    IF cls = "P" THEN <<[name |-> OptX]>>
    ELSE IF cls = "Q"
    THEN <<[block |-> BlockA,
            options |-> <<[name |-> OptX, allow_duplicates |-> FALSE]>>]>>
    ELSE <<[block |-> BlockB, options |-> <<[name |-> OptX]>>]>>

\* what parse_option of the class raises when it rejects its arguments: a
\* TypeError for a wrong number of values, a ValueError for an invalid value
Raises(cls) == IF cls = "P" THEN "TypeError" ELSE "ValueError"

\* Plugin.needs_root
needs_root(cls) == cls = "Q"

\* Plugin.task_only
task_only(cls) == FALSE

----------------------------------------------------------------------------
(* Registry and ExtRegistry (focus/registry.py).  A dictionary is a        *)
(* function; a callable is a plugin class or a fetch_plugin closure.       *)

\* d[k] = v
Put(d, k, v) == [x \in DOMAIN d \cup {k} |-> IF x = k THEN v ELSE d[x]]

\* del d[k], d.pop(k)
Del(d, k) == [x \in DOMAIN d \ {k} |-> d[x]]

\* d.get(k, default)
DictGet(d, k, default) == IF k \in DOMAIN d THEN d[k] ELSE default

\* d.update(u)
DictUpdate(d, u) ==
    [k \in DOMAIN d \cup DOMAIN u |-> IF k \in DOMAIN u THEN u[k] ELSE d[k]]

\* {flag: True}
Flag(name) == [k \in {name} |-> TRUE]

\* a plugin class as a registered callable
ClassCallable(cls) == [kind |-> "class", cls |-> cls]

\* a fetch_plugin closure made by one register call
Closure(cls) == [kind |-> "closure", cls |-> cls]

\* old_action == value: a class equals itself, a new closure equals nothing
SameCallable(old, value) ==
    old.kind = "class" /\ value.kind = "class" /\ old.cls = value.cls

\* no plugin object (None)
NoPlugin == [cls |-> "", id |-> 0]

\* Registry.__init__
EmptyRegistry == [actions |-> EmptyMap, cache |-> EmptyMap]

\* ExtRegistry.__init__
EmptyExtRegistry == [actions |-> EmptyMap, cache |-> EmptyMap, type_info |-> EmptyMap]

\* Registry.register
RegistryRegister(reg, key, value) ==
    [reg EXCEPT !.actions = Put(@, key, value), !.cache = Del(@, key)]

\* ExtRegistry.register
ExtRegistryRegister(reg, key, value, type_info) ==
    LET same == /\ key \in DOMAIN reg.actions
                /\ SameCallable(reg.actions[key], value)
                /\ key \in DOMAIN reg.type_info
        info == IF same THEN DictUpdate(reg.type_info[key], type_info) ELSE type_info
    IN  [actions |-> Put(reg.actions, key, value),
         cache |-> Del(reg.cache, key),
         type_info |-> Put(reg.type_info, key, info)]

----------------------------------------------------------------------------
(* The global registries of focus/plugin/registration.py, as one record g: *)
(* registered, option_hooks, command_hooks, event_hooks, and created, the  *)
(* number of instances constructed of each class.                          *)

\* the module's globals when it has been imported
RegistriesInit ==
    [registered |-> EmptyExtRegistry,
     option_hooks |-> EmptyExtRegistry,
     command_hooks |-> EmptyRegistry,
     event_hooks |-> EmptyMap,
     created |-> [c \in DispatchClasses |-> 0]]

\* _registered.get(name): (instance, type_info) or None; the class is
\* instantiated when the cache holds no instance
RegisteredGet(g, name) ==
    IF name \notin DOMAIN g.registered.actions THEN [g |-> g, item |-> None]
    ELSE IF name \in DOMAIN g.registered.cache
    THEN [g |-> g, item |-> <<g.registered.cache[name], g.registered.type_info[name]>>]
    ELSE LET cls == g.registered.actions[name].cls
             obj == [cls |-> cls, id |-> g.created[cls] + 1]
         IN  [g |-> [g EXCEPT !.registered.cache = Put(@, name, obj),
                              !.created[cls] = @ + 1],
              item |-> <<obj, g.registered.type_info[name]>>]

\* register.fetch_plugin
FetchPlugin(g, closure) ==
    LET r == RegisteredGet(g, Name(closure.cls))
    IN  [g |-> r.g, obj |-> r.item[1]]

\* _command_hooks.get(key): the plugin instance or None
CommandHooksGet(g, key) ==
    IF key \notin DOMAIN g.command_hooks.actions THEN [g |-> g, obj |-> NoPlugin]
    ELSE IF key \in DOMAIN g.command_hooks.cache
    THEN [g |-> g, obj |-> g.command_hooks.cache[key]]
    ELSE LET f == FetchPlugin(g, g.command_hooks.actions[key])
         IN  [g |-> [f.g EXCEPT !.command_hooks.cache = Put(@, key, f.obj)],
              obj |-> f.obj]

\* _option_hooks.get(key): (instance, props) or None
OptionHooksGet(g, key) ==
    IF key \notin DOMAIN g.option_hooks.actions THEN [g |-> g, item |-> None]
    ELSE IF key \in DOMAIN g.option_hooks.cache
    THEN [g |-> g, item |-> <<g.option_hooks.cache[key], g.option_hooks.type_info[key]>>]
    ELSE LET f == FetchPlugin(g, g.option_hooks.actions[key])
         IN  [g |-> [f.g EXCEPT !.option_hooks.cache = Put(@, key, f.obj)],
              item |-> <<f.obj, g.option_hooks.type_info[key]>>]

\* _is_plugin_disabled with the lookup of the flag left out
IsPluginDisabled_Never(g, plugin) ==
    [g |-> RegisteredGet(g, Name(plugin.cls)).g, disabled |-> FALSE]

\* _is_plugin_disabled
IsPluginDisabled(g, plugin) ==
    LET r == RegisteredGet(g, Name(plugin.cls))
    IN  [g |-> r.g,
         disabled |-> IF r.item = None THEN FALSE
                      ELSE DictGet(r.item[2], "disabled", FALSE)]

\* disable_plugin_instance
DisablePluginInstance(g, plugin) ==
    [g EXCEPT !.registered =
        ExtRegistryRegister(@, Name(plugin.cls), ClassCallable(plugin.cls), Flag("disabled"))]

\* register
Register(g, hook_type, key, plugin_cls, properties) ==
    LET fetch_plugin == Closure(plugin_cls)
        hooked ==
            IF hook_type = "command"
            THEN [g EXCEPT !.command_hooks = RegistryRegister(@, key, fetch_plugin)]
            ELSE IF hook_type = "event"
            THEN [g EXCEPT !.event_hooks =
                     Put(@, key, Append(DictGet(@, key, <<>>),
                                        <<Name(plugin_cls), fetch_plugin>>))]
            ELSE [g EXCEPT !.option_hooks =
                     ExtRegistryRegister(@, key, fetch_plugin, properties)]
    IN  IF hook_type \notin {"command", "event", "option"} THEN g
        ELSE [hooked EXCEPT !.registered =
                 ExtRegistryRegister(@, Name(plugin_cls), ClassCallable(plugin_cls),
                                     Flag(hook_type))]

\* _setup_command
SetupCommand(g, plugin) ==
    IF Command(plugin) # None THEN Register(g, "command", Command(plugin), plugin, EmptyMap)
    ELSE g

RECURSIVE RegisterEvents(_, _, _)
\* _setup_events, the loop over the events the class lists
RegisterEvents(g, plugin, events) ==
    IF events = <<>> THEN g
    ELSE RegisterEvents(IF Head(events) \in EVENT_VALS
                        THEN Register(g, "event", Head(events), plugin, EmptyMap)
                        ELSE g,
                        plugin, Tail(events))

\* _setup_events
SetupEvents(g, plugin) == RegisterEvents(g, plugin, Events(plugin))

\* the key of an option of a block: "{0}_{1}".format(block, name)
BlockKey(block, name) == block \o <<"_">> \o name

RECURSIVE RegisterBlockOptions(_, _, _, _)
\* _setup_options, the loop over the options of one block
RegisterBlockOptions(g, plugin, block, option_list) ==
    IF option_list = <<>> THEN g
    ELSE LET props == Head(option_list)
             next == IF "name" \in DOMAIN props
                     THEN Register(g, "option", BlockKey(block, props.name), plugin,
                                   Del(props, "name"))
                     ELSE g
         IN  RegisterBlockOptions(next, plugin, block, Tail(option_list))

RECURSIVE RegisterOptions(_, _, _)
\* _setup_options, the loop over the declared options
RegisterOptions(g, plugin, options) ==
    IF options = <<>> THEN g
    ELSE LET props == Head(options)
             next == IF "block" \in DOMAIN props /\ "options" \in DOMAIN props
                     THEN RegisterBlockOptions(g, plugin, props.block, props.options)
                     ELSE IF "name" \in DOMAIN props
                     THEN Register(g, "option", props.name, plugin, Del(props, "name"))
                     ELSE g
         IN  RegisterOptions(next, plugin, Tail(options))

\* _setup_options
SetupOptions(g, plugin) == RegisterOptions(g, plugin, Options(plugin))

\* register_all
RegisterAll(g, plugin) == SetupOptions(SetupEvents(SetupCommand(g, plugin), plugin), plugin)

\* a filter argument left at None admits both values of the flag
AnyFlag == BOOLEAN

RECURSIVE GetAll(_, _)
\* Registry.__iter__ over the given keys: get() of each, which instantiates
GetAll(g, names) ==
    IF names = {} THEN g
    ELSE LET n == CHOOSE x \in names : TRUE
         IN  GetAll(RegisteredGet(g, n).g, names \ {n})

\* get_registered: the globals after the iteration and the set of plugins kept
GetRegistered(g, want_option, want_event, want_command, root_access, task_active) ==
    LET g2 == GetAll(g, DOMAIN g.registered.actions)
        kept(n) ==
            LET plugin == g2.registered.cache[n]
                type_info == g2.registered.type_info[n]
            IN  /\ IF task_active THEN ~DictGet(type_info, "disabled", FALSE)
                   ELSE ~(Options(plugin.cls) # <<>> \/ task_only(plugin.cls))
                /\ DictGet(type_info, "option", FALSE) \in want_option
                /\ DictGet(type_info, "event", FALSE) \in want_event
                /\ DictGet(type_info, "command", FALSE) \in want_command
                /\ needs_root(plugin.cls) \in root_access
    IN  [g |-> g2,
         plugins |-> {g2.registered.cache[n] : n \in {m \in DOMAIN g2.registered.actions : kept(m)}}]

\* get_command_hook
GetCommandHook(g, command, task_active) ==
    LET c == CommandHooksGet(g, command)
    IN  IF c.obj # NoPlugin
           /\ (task_active \/ (Options(c.obj.cls) = <<>> /\ ~task_only(c.obj.cls)))
        THEN LET d == IsPluginDisabled(c.g, c.obj)
             IN  [g |-> d.g, result |-> IF ~d.disabled THEN c.obj ELSE NoPlugin]
        ELSE [g |-> c.g, result |-> NoPlugin]

\* what the event method of a plugin does when called: return, raise an
\* exception derived from Exception, raise SystemExit (as run_root does when
\* it shuts the task runner down, daemon.py:477 and 545), or disable itself
Outcomes == {"ok", "raise", "exit", "disable"}

\* the exception that leaves the event method
Raised(outcome) ==
    IF outcome = "raise" THEN "Exception"
    ELSE IF outcome = "exit" THEN "SystemExit" ELSE ""

\* except Exception
Caught(exc) == exc = "Exception"

\* the exception that leaves the try statement around the event method
Escapes(outcome) == IF Caught(Raised(outcome)) THEN "" ELSE Raised(outcome)

RECURSIVE RunChain_NoSkip(_, _, _)
\* the loop over the call chain with the disabled plugins called as well
RunChain_NoSkip(st, call_chain, behave) ==
    IF call_chain = <<>> \/ st.exc # "" THEN st
    ELSE LET f == FetchPlugin(st.g, Head(call_chain)[2])
             d == IsPluginDisabled(f.g, f.obj)
             next == [g |-> IF behave[f.obj.cls] = "disable"
                            THEN DisablePluginInstance(d.g, f.obj)
                            ELSE d.g,
                      calls |-> Append(st.calls, f.obj),
                      exc |-> Escapes(behave[f.obj.cls])]
         IN  RunChain_NoSkip(next, Tail(call_chain), behave)

RECURSIVE RunChain(_, _, _)
\* run_event_hooks, the loop over the call chain; st = [g, calls, exc], the
\* loop is left when an exception escapes
RunChain(st, call_chain, behave) ==
    IF call_chain = <<>> \/ st.exc # "" THEN st
    ELSE LET f == FetchPlugin(st.g, Head(call_chain)[2])
             d == IsPluginDisabled(f.g, f.obj)
             next == IF d.disabled THEN [st EXCEPT !.g = d.g]
                     ELSE [g |-> IF behave[f.obj.cls] = "disable"
                                 THEN DisablePluginInstance(d.g, f.obj)
                                 ELSE d.g,
                           calls |-> Append(st.calls, f.obj),
                           exc |-> Escapes(behave[f.obj.cls])]
         IN  RunChain(next, Tail(call_chain), behave)

\* run_event_hooks: the globals afterwards, the instances whose event method
\* was called, in call order, and the exception that reached the caller
RunEventHooks(g, event, behave) ==
    LET call_chain == DictGet(g.event_hooks, event, <<>>)
    IN  IF call_chain # <<>> /\ event \in EVENT_VALS
        THEN RunChain([g |-> g, calls |-> <<>>, exc |-> ""], call_chain, behave)
        ELSE [g |-> g, calls |-> <<>>, exc |-> ""]

\* no InvalidTaskConfig raised
NoError == [kind |-> "", option |-> None, block |-> None]

\* props.get('allow_duplicates', True), read as always True
AllowDuplicates_Always(props) == TRUE

\* props.get('allow_duplicates', True)
AllowDuplicates(props) == DictGet(props, "allow_duplicates", TRUE)

\* _run_hooks, the branch of a key without a handler, continuing instead of raising
InvalidKey_Skip(st, option, block) == st

\* _run_hooks, the branch of a key without a handler: _raise_error
InvalidKey(st, option, block) ==
    [st EXCEPT !.error = [kind |-> "Invalid option", option |-> option, block |-> block]]

\* _run_hooks, one option; st = [g, state, plugins, calls, error], fail is
\* the number of the parse_option call of the pass that raises (0: none)
RunHook(st, option, value_list, block, fail) ==
    LET key == IF block # None THEN BlockKey(block, option) ELSE option
        r == OptionHooksGet(st.g, key)
        st0 == [st EXCEPT !.g = r.g]
    IN  IF r.item # None
        THEN LET plugin_obj == r.item[1]
                 props == r.item[2]
                 count == DictGet(st0.state, key, 0) + 1
                 st1 == [st0 EXCEPT !.state = Put(@, key, count)]
                 call == [obj |-> plugin_obj, option |-> option, block |-> block,
                          values |-> value_list]
                 st2 == [st1 EXCEPT !.calls = Append(@, call)]
             IN  IF ~AllowDuplicates(props) /\ count > 1
                 THEN [st1 EXCEPT !.error = [kind |-> "Duplicate option",
                                             option |-> option, block |-> block]]
                 ELSE IF Len(st2.calls) # fail
                 THEN [st2 EXCEPT !.plugins = @ \cup {plugin_obj}]
                 ELSE [st2 EXCEPT !.error =
                          [kind |-> IF Raises(plugin_obj.cls) = "TypeError"
                                    THEN "Value mismatch" ELSE "Invalid value",
                           option |-> option, block |-> block]]
        ELSE InvalidKey(st0, option, block)

RECURSIVE RunHooks(_, _, _, _)
\* _run_hooks: the loop over the options, left when an error is raised
RunHooks(st, options, block, fail) ==
    IF options = <<>> \/ st.error # NoError THEN st
    ELSE RunHooks(RunHook(st, Head(options)[1], Head(options)[2], block, fail),
                  Tail(options), block, fail)

RECURSIVE RunBlocks_LastFirst(_, _, _)
\* the loop over parser.blocks taken from the last block to the first
RunBlocks_LastFirst(st, blocks, fail) ==
    IF blocks = <<>> \/ st.error # NoError THEN st
    ELSE RunBlocks_LastFirst(RunHooks(st, blocks[Len(blocks)][2], blocks[Len(blocks)][1],
                                      fail),
                             SubSeq(blocks, 1, Len(blocks) - 1), fail)

RECURSIVE RunBlocks(_, _, _)
\* run_option_hooks, the loop over parser.blocks
RunBlocks(st, blocks, fail) ==
    IF blocks = <<>> \/ st.error # NoError THEN st
    ELSE RunBlocks(RunHooks(st, Head(blocks)[2], Head(blocks)[1], fail),
                   Tail(blocks), fail)

RECURSIVE DisableAll(_, _)
\* disable_plugin_instance on each of the given plugins
DisableAll(g, plugins) ==
    IF plugins = {} THEN g
    ELSE LET p == CHOOSE x \in plugins : TRUE
         IN  DisableAll(DisablePluginInstance(g, p), plugins \ {p})

\* the registered option plugins that are not in the list of invoked ones,
\* with none taken as missing
MissingPlugins_None(reg_plgs, plugins) == {}

\* [p for p in reg_plgs if p not in plugins]
MissingPlugins(reg_plgs, plugins) == {p \in reg_plgs : p \notin plugins}

\* run_option_hooks
RunOptionHooks(g, parser, disable_missing, fail) ==
    LET st0 == [g |-> g, state |-> EmptyMap, plugins |-> {}, calls |-> <<>>,
                error |-> NoError]
        st1 == RunHooks(st0, parser.options, None, fail)
        st2 == RunBlocks(st1, parser.blocks, fail)
    IN  IF st2.error # NoError \/ ~disable_missing
        THEN [g |-> st2.g, calls |-> st2.calls, error |-> st2.error]
        ELSE LET reg == GetRegistered(st2.g, {TRUE}, AnyFlag, AnyFlag, AnyFlag, TRUE)
             IN  [g |-> DisableAll(reg.g, MissingPlugins(reg.plugins, st2.plugins)),
                  calls |-> st2.calls, error |-> st2.error]

----------------------------------------------------------------------------
(* Inputs of the registration engine: parsed configurations and plugin     *)
(* behaviours.                                                             *)

OptZ1 == <<OptZ, <<<<"1">>>>>>

RECURSIVE SeqsOver(_, _)
\* the sequences over S of length at most n
SeqsOver(S, n) ==
    IF n = 0 THEN {<<>>}
    ELSE LET shorter == SeqsOver(S, n - 1)
         IN  shorter \cup {Append(s, x) : s \in {t \in shorter : Len(t) = n - 1}, x \in S}

RECURSIVE CountBlockOptions(_)
\* the number of options in a list of blocks
CountBlockOptions(blocks) ==
    IF blocks = <<>> THEN 0 ELSE Len(blocks[1][2]) + CountBlockOptions(Tail(blocks))

\* the number of options in a parsed configuration
CountOptions(parser) == Len(parser.options) + CountBlockOptions(parser.blocks)

\* the top-level option A_x with one value: its name is the key of option x
\* of block A
OptAX1 == <<BlockKey(BlockA, OptX), <<<<"1">>>>>>

\* what run_option_hooks reads of a parser: parser.options and parser.blocks.
\* Option x has a handler at the top level and in block A, option z has none,
\* and no plugin declares a top-level option A_x
ParsedConfigs ==
    {p \in {[options |-> o, blocks |-> b] :
                o \in SeqsOver({OptX1, OptZ1, OptAX1}, MaxAstOptions),
                b \in {<<>>} \cup {<<<<BlockA, bo>>>> :
                                      bo \in SeqsOver({OptX1, OptZ1}, MaxAstOptions)}} :
        CountOptions(p) <= MaxAstOptions}

OptX12 == <<OptX, <<<<"1">>, <<"2">>>>>>

\* the blocks A and B with the option lists of the dispatch-order specification
DispatchBlocks ==
    {<<BlockA, bo>> : bo \in SeqsOver({OptX1}, MaxAstOptions)}
        \cup {<<BlockB, bo>> : bo \in SeqsOver({OptX12}, MaxAstOptions)}

\* parsed configurations of up to two blocks of distinct names, every option
\* of which has a handler when P, Q and R are loaded; option x occurs with one
\* value and with two
DispatchConfigs ==
    {p \in {[options |-> o, blocks |-> b] :
                o \in SeqsOver({OptX1, OptX12}, MaxAstOptions),
                b \in {<<>>} \cup {<<b1>> : b1 \in DispatchBlocks}
                        \cup {<<bs[1], bs[2]>> :
                                 bs \in {x \in DispatchBlocks \X DispatchBlocks :
                                            x[1][1] # x[2][1]}}} :
        CountOptions(p) <= MaxAstOptions}

----------------------------------------------------------------------------
(* The registration module as program state.                               *)

\* the module globals as one record
Globals ==
    [registered |-> registered, option_hooks |-> option_hooks,
     command_hooks |-> command_hooks, event_hooks |-> event_hooks,
     created |-> created]

\* the module globals are assigned from g
SetGlobals(g) ==
    /\ registered' = g.registered
    /\ option_hooks' = g.option_hooks
    /\ command_hooks' = g.command_hooks
    /\ event_hooks' = g.event_hooks
    /\ created' = g.created

\* the names of the plugins whose type info has disabled set
DisabledNames(g) ==
    {n \in DOMAIN g.registered.type_info :
        DictGet(g.registered.type_info[n], "disabled", FALSE)}

\* the plugin instances the registries hold
LiveInstances ==
    {registered.cache[n] : n \in DOMAIN registered.cache}
        \cup {option_hooks.cache[k] : k \in DOMAIN option_hooks.cache}
        \cup {command_hooks.cache[c] : c \in DOMAIN command_hooks.cache}

\* the record of a call: its arguments, the disabled plugins before it, the
\* plugin methods it invoked, the error it raised and the value it returned
Call(op, args, calls, error, result) ==
    [op |-> op, args |-> args, before |-> DisabledNames(Globals),
     calls |-> calls, error |-> error, result |-> result]

NoArgs == [none |-> TRUE]

\* no call into the module is waiting for its caller
NoCall ==
    [op |-> "", args |-> NoArgs, before |-> {}, calls |-> <<>>, error |-> NoError,
     result |-> NoPlugin]

RegistrationInit ==
    /\ registered = RegistriesInit.registered
    /\ option_hooks = RegistriesInit.option_hooks
    /\ command_hooks = RegistriesInit.command_hooks
    /\ event_hooks = RegistriesInit.event_hooks
    /\ created = RegistriesInit.created
    /\ loaded = {}
    /\ lastCall = NoCall

----------------------------------------------------------------------------
(* The focusd daemon (focus/daemon.py): the supervisor process Focusd, its  *)
(* two child processes and the pipe they share.                            *)

\* SIGTERM is sent to the supervisor at most this many times
MaxSigterm == 1

\* the user ids a daemon process runs with
Uids == {"root", "owner"}

\* a frame of the supervisor's call stack: the statement it is at, what the
\* is_alive() calls of this shutdown() returned and the pipe end that
\* _shutdown_pipe is at
Frame(pc) ==
    [pc |-> pc, task_runner_alive |-> FALSE, command_server_alive |-> FALSE, end |-> 1]

\* a multiprocessing.Process before start()
NotStarted == [state |-> "initial", uid |-> ""]

\* focusd(): the command server is started when event plugins that need
\* root are registered and the process runs as root
StartCmdSrv(uid, root_plugins) == IF root_plugins THEN uid = "root" ELSE FALSE

\* the statements of Focusd.run in the order control takes them, with the
\* privilege drop after the start of the task runner
RunOrder_DropLast(start_command_srv) ==
    IF start_command_srv
    THEN <<"start_command_server", "start_task_runner", "drop_privs",
           "reg_sighandlers", "loop">>
    ELSE <<"start_task_runner", "reg_sighandlers", "loop">>

\* the statements of Focusd.run in the order control takes them
RunOrder(start_command_srv) ==
    IF start_command_srv
    THEN <<"start_command_server", "drop_privs", "start_task_runner",
           "reg_sighandlers", "loop">>
    ELSE <<"start_task_runner", "reg_sighandlers", "loop">>

\* the statement of Focusd.run that follows the given one
NextStatement(pc, start_command_srv) ==
    LET order == RunOrder(start_command_srv)
        i == CHOOSE k \in 1..Len(order) : order[k] = pc
    IN  order[i + 1]

\* the daemonized process in focusd() at Focusd(task).run(start_cmd_srv): the
\* uid it runs with, whether root event plugins are registered, and the
\* Focusd object after __init__
FocusdInit(uid, root_plugins) ==
    [uid |-> uid, root_plugins |-> root_plugins,
     start_cmd_srv |-> StartCmdSrv(uid, root_plugins), exited |-> FALSE,
     stack |-> <<Frame(RunOrder(StartCmdSrv(uid, root_plugins))[1])>>,
     handlers |-> FALSE, pending |-> {}, sigterms |-> 0]

\* the supervisor of a specification that runs no daemon
SupProcessIdle ==
    /\ sup = [FocusdInit("owner", FALSE) EXCEPT !.stack = <<>>]
    /\ children = [task_runner |-> NotStarted, command_server |-> NotStarted]
    /\ pipe = [end \in {1, 2} |-> [trm |-> FALSE, closed |-> FALSE]]
    /\ supLog = <<>>

SupIdle ==
    /\ SupProcessIdle
    /\ task = [active |-> FALSE, pidfile |-> FALSE]

\* most run_root calls of the plugins of one task runner
MaxRootCalls == 2

\* a frame of the task runner's call stack: the function, the statement it is
\* at, the function's argument (shutdown, skip_hooks or event), the number
\* of the run_root call, the reply it read, and whether run_root is to shut
\* the process down
RFrame(fn, pc, arg) ==
    [fn |-> fn, pc |-> pc, arg |-> arg, caller |-> 0, res |-> "", failed |-> FALSE]

\* the root event plugins, in the order of their registration
HookPlugins == <<"P", "Q">>

\* the task runner in TaskProcess.run after _prepare(); hooks records the
\* event methods called (of task_run the first call of each plugin) with the
\* length of runLog at the call, and returns the run_root calls that
\* returned with the reply read and the value returned
TaskRunnerInit ==
    [stack |-> <<RFrame("run", "while", "")>>, exited |-> FALSE, ran_taskstart |-> FALSE,
     rlock |-> 0, parent_alive |-> TRUE, elapsed |-> FALSE, sigterms |-> 0, calls |-> 0,
     hooks |-> <<>>, returns |-> <<>>]

\* the pipe between task runner and command server: the messages on their
\* way in each direction, whether the task runner has closed its ends, and
\* whether the command server reads requests
PipeInit == [requests |-> <<>>, replies |-> <<>>, closed |-> FALSE, serving |-> TRUE]

\* a message on the pipe: the run_root call that sent it or that it answers
\* (0 for a TRM sentinel) and its bytes
Message(caller, data) == [caller |-> caller, data |-> data]

\* the task runner of a specification that runs none
RunnerIdle ==
    /\ runner = [TaskRunnerInit EXCEPT !.stack = <<>>]
    /\ chan = PipeInit
    /\ runLog = <<>>

\* the command server in TaskProcess.run after _prepare(): the statement it
\* is at, the payload it received last, the result of shell_process for it
\* ("" when it was not called), the replies it sent for it, what
\* _process_commands returned, and the number of messages received
CommandServerInit ==
    [pc |-> "while", payload |-> <<>>, res |-> "", sent |-> <<>>, result |-> TRUE,
     received |-> 0]

\* the command server of a specification that runs none
ServerIdle == server = [CommandServerInit EXCEPT !.pc = ""]

DaemonIdle == SupIdle /\ RunnerIdle /\ ServerIdle

----------------------------------------------------------------------------
(* Specification SpecLex: the lexer run character by character over a text *)
(* that is either raw or the writer's rendering of one value.              *)

\* the lexer variables of a specification that runs no lexer step machine
LexIdle ==
    /\ stream = <<>>
    /\ lexer = LexerInit
    /\ lexSrc = [mode |-> "raw", value |-> <<>>]

\* the parser variables of a specification that uses no parser object
ParserIdle == ParserInit /\ inputs = <<>>

LexInit ==
    /\ ParserIdle
    /\ DaemonIdle
    /\ RegistrationInit
    /\ lexer = LexerInit
    /\ \/ \E v \in StringsUpTo(MaxValueLen) :
             /\ lexSrc = [mode |-> "written", value |-> v]
             /\ stream = SerializeValue(v)
       \/ \E t \in StringsUpTo(MaxRawLen) :
             /\ lexSrc = [mode |-> "raw", value |-> t]
             /\ stream = t

\* _tokenize loop, a newline character
LexNewline ==
    /\ stream # <<>>
    /\ Head(stream) \in NEWLINES
    /\ lexer' = ProcessNewline(lexer, Head(stream))
    /\ stream' = Tail(stream)
    /\ UNCHANGED <<lexSrc, parserVars, regVars, daemonVars>>

\* _tokenize loop, a character inside a string
LexString ==
    /\ stream # <<>>
    /\ Head(stream) \notin NEWLINES
    /\ lexer.state = ST_STRING
    /\ lexer' = ProcessString(lexer, Head(stream))
    /\ stream' = Tail(stream)
    /\ UNCHANGED <<lexSrc, parserVars, regVars, daemonVars>>

\* _tokenize loop, a character in TOKEN state
LexTokens ==
    /\ stream # <<>>
    /\ Head(stream) \notin NEWLINES
    /\ lexer.state = ST_TOKEN
    /\ lexer' = ProcessTokens(lexer, Head(stream))
    /\ stream' = Tail(stream)
    /\ UNCHANGED <<lexSrc, parserVars, regVars, daemonVars>>

\* _tokenize loop, a character inside a comment: skipped
LexComment ==
    /\ stream # <<>>
    /\ Head(stream) \notin NEWLINES
    /\ lexer.state = ST_COMMENT
    /\ stream' = Tail(stream)
    /\ UNCHANGED <<lexer, lexSrc, parserVars, regVars, daemonVars>>

LexNext == LexNewline \/ LexString \/ LexTokens \/ LexComment

SpecLex == LexInit /\ [][LexNext]_vars

\* the lexer has consumed the whole text
LexDone == stream = <<>>

\* the character the lexer processes next
NextChar == Head(stream)

----------------------------------------------------------------------------
(* Claims about the lexer. *)

\* C3: the writer's rendering of any (non-empty) value string is lexed into exactly one
\* token whose text is the original string.
C3_WrittenValueLexesBack ==
    (LexDone /\ lexSrc.mode = "written" /\ lexSrc.value # <<>>) => TokenTexts(lexer.tokens) = <<lexSrc.value>>

\* C26: at the end of the input the characters accumulated in the token
\* buffer have been emitted as a token: when the text ends in the TOKEN
\* state, no character is left in the buffer.
C26_FinalTokenEmitted ==
    (LexDone /\ lexer.state = ST_TOKEN) => lexer.chars = <<>>

\* C27: in the TOKEN state a space, a tab or one of { } ; , that follows the
\* escape character is appended to the token buffer in place of the escape
\* character, and no token is produced.
C27_EscapedDelimiterIsLiteral ==
    [][(/\ stream # <<>>
        /\ lexer.state = ST_TOKEN
        /\ NextChar \in {SPACE, "\t"} \cup TOKENS
        /\ lexer.chars # <<>>
        /\ lexer.chars[Len(lexer.chars)] = ESCAPE)
       => (/\ lexer'.tokens = lexer.tokens
           /\ lexer'.chars = Append(SubSeq(lexer.chars, 1, Len(lexer.chars) - 1), NextChar)
           /\ lexer'.state = ST_TOKEN)]_vars

\* C4: inside a string, the quote character that did not open the string is
\* appended as content and the lexer stays in the STRING state.
C4_OtherQuoteIsLiteral ==
    [][(/\ stream # <<>>
        /\ lexer.state = ST_STRING
        /\ NextChar \in QUOTES
        /\ NextChar # lexer.last_quote)
       => (/\ lexer'.state = ST_STRING
           /\ lexer'.chars = Append(lexer.chars, NextChar)
           /\ lexer'.tokens = lexer.tokens)]_vars

----------------------------------------------------------------------------
(* Specification SpecParse: documents drawn at the start are read, one     *)
(* after the other, by one parser object.                                  *)

ParseInit ==
    /\ LexIdle
    /\ DaemonIdle
    /\ RegistrationInit
    /\ ParserInit
    /\ \/ \E d \in Documents : inputs = <<d>>
       \/ \E d1 \in SmallDocuments, d2 \in Documents : inputs = <<d1, d2>>

\* parser.readstream on the next document
ReadPending ==
    /\ inputs # <<>>
    /\ Readstream(Head(inputs))
    /\ inputs' = Tail(inputs)
    /\ UNCHANGED <<lexVars, regVars, daemonVars>>

ParseNext == ReadPending

SpecParse == ParseInit /\ [][ParseNext]_vars

----------------------------------------------------------------------------
(* Specification SpecTerm: one document is read whose single option, at the *)
(* top level or in a block, has delimiter tokens among its values.         *)

\* the tokens { } ; ,
Delimiters == {<<c>> : c \in TOKENS}

\* option x with one or two values, each the term 1 or a delimiter
TermOptions ==
    {<<OptX, vs>> : vs \in {v \in SeqsOver({<<"1">>} \cup Delimiters, 2) : v # <<>>}}

TermDocuments ==
    {Document(<<OptionItem(o)>>) : o \in TermOptions}
        \cup {Document(<<BlockItem(<<BlockA, <<o>>>>)>>) : o \in TermOptions}

TermInit ==
    /\ LexIdle
    /\ DaemonIdle
    /\ RegistrationInit
    /\ ParserInit
    /\ \E d \in TermDocuments : inputs = <<d>>

SpecTerm == TermInit /\ [][ParseNext]_vars

----------------------------------------------------------------------------
(* Specification SpecParser: one parser object under any sequence of       *)
(* readstream, writestream and mutation calls.                             *)

ApiInit == LexIdle /\ ParserInit /\ inputs = <<>> /\ RegistrationInit /\ DaemonIdle

ApiReadstream ==
    /\ \E d \in SmallDocuments : Readstream(d)
    /\ UNCHANGED <<inputs, lexVars, regVars, daemonVars>>

ApiWritestream ==
    /\ \E header \in {None, Header, BadName}, io_ok \in BOOLEAN : Writestream(header, io_ok)
    /\ UNCHANGED <<inputs, lexVars, regVars, daemonVars>>

ApiAddOption ==
    /\ TotalOptions(ast) < MaxOptions
    /\ \E block \in {None} \cup BlockNames, arg \in OptionArgs :
          AddOption(block, arg[1], arg[2])
    /\ UNCHANGED <<inputs, lexVars, regVars, daemonVars>>

ApiRemoveOption ==
    /\ \E block \in {None} \cup BlockNames, name \in {OptX, OptY} :
          RemoveOption(block, name)
    /\ UNCHANGED <<inputs, lexVars, regVars, daemonVars>>

ApiAddBlock ==
    /\ \E name \in BlockNames \cup {BadName} : AddBlock(name)
    /\ UNCHANGED <<inputs, lexVars, regVars, daemonVars>>

ApiRemoveBlock ==
    /\ \E name \in BlockNames : RemoveBlock(name)
    /\ UNCHANGED <<inputs, lexVars, regVars, daemonVars>>

ApiNext ==
    \/ ApiReadstream
    \/ ApiWritestream
    \/ ApiAddOption
    \/ ApiRemoveOption
    \/ ApiAddBlock
    \/ ApiRemoveBlock

SpecParser == ApiInit /\ [][ApiNext]_vars

----------------------------------------------------------------------------
(* Claims about the parser. *)

\* the text of the last writestream, read back by a fresh parser
ReadBack == RuleContainer(Tokenize(written).tokens, EmptyMap)

\* C1: an AST built with add_block/add_option, written under a valid header
\* and parsed again, gives the same header, options and blocks.
C1_WriteReadRoundTrip ==
    (lastOp.op = "writestream" /\ err = "" /\ history.built)
        => \A r \in {ReadBack} : r.ok /\ r.ast = ast

\* the names of the blocks among items, each once, in order of first occurrence
RECURSIVE FirstOccurrences(_, _)
FirstOccurrences(items, seen) ==
    IF items = <<>> THEN <<>>
    ELSE IF items[1].kind = "block" /\ items[1].val[1] \notin seen
    THEN <<items[1].val[1]>> \o FirstOccurrences(Tail(items), seen \cup {items[1].val[1]})
    ELSE FirstOccurrences(Tail(items), seen)

\* the options of the last block called name among items
LastContent(items, name) ==
    LET last == CHOOSE i \in 1..Len(items) :
                    /\ items[i].kind = "block" /\ items[i].val[1] = name
                    /\ \A j \in (i + 1)..Len(items) :
                          ~(items[j].kind = "block" /\ items[j].val[1] = name)
    IN  items[last].val[2]

\* the blocks list the claim expects for a document made of items
ExpectedBlocks(items) ==
    LET names == FirstOccurrences(items, {})
    IN  [i \in 1..Len(names) |-> <<names[i], LastContent(items, names[i])>>]

WellFormed(items) == \A i \in 1..Len(items) : items[i].kind # "raw"

\* C2: a parsed container holds one block per distinct name, at the position
\* of the name's first occurrence, with the options of its last occurrence.
C2_DuplicateBlocksLastWinsInPlace ==
    (lastOp.op = "readstream" /\ WellFormed(lastOp.items))
        => (err = "" /\ ast[3] = ExpectedBlocks(lastOp.items))

\* C2 witness: a document A.. B.. A.. with differing contents for A was parsed
C2_Witness ==
    /\ lastOp.op = "readstream" /\ err = ""
    /\ Len(lastOp.items) = 3
    /\ lastOp.items[1].kind = "block" /\ lastOp.items[1].val[1] = BlockA
    /\ lastOp.items[2].kind = "block" /\ lastOp.items[2].val[1] = BlockB
    /\ lastOp.items[3].kind = "block" /\ lastOp.items[3].val[1] = BlockA
    /\ lastOp.items[1].val[2] # lastOp.items[3].val[2]
    /\ Len(ast[3]) = 2

\* the values of the option of a document of SpecTerm
ReadValues ==
    IF lastOp.items[1].kind = "option" THEN lastOp.items[1].val[2]
    ELSE lastOp.items[1].val[2][1][2]

\* C28: a document in which a value of an option is one of the tokens
\* { } ; , is rejected with ParseError.
C28_DelimiterIsNoTerm ==
    (lastOp.op = "readstream" /\ \E i \in DOMAIN ReadValues : ReadValues[i] \in Delimiters)
        => err = "ParseError"

\* C5: after readstream raised ParseError the parser exposes header None, no
\* options and no blocks.
C5_FailedParseLeavesEmptyAst ==
    (lastOp.op = "readstream" /\ err = "ParseError")
        => (ast[1] = None /\ ast[2] = <<>> /\ ast[3] = <<>>)

\* C5 witness: a parse failed on a parser whose earlier parse had succeeded
\* and whose failing document had a well-formed block before the error
C5_Witness ==
    /\ lastOp.op = "readstream" /\ err = "ParseError"
    /\ history.parsed
    /\ block_map # EmptyMap

\* C6: the block index map holds exactly the names of the blocks in the
\* blocks list, each mapped to its block's position.
C6_BlockMapConsistent ==
    /\ DOMAIN block_map = {ast[3][i][1] : i \in 1..Len(ast[3])}
    /\ \A i \in 1..Len(ast[3]) : block_map[ast[3][i][1]] = i - 1

\* every option of the list has at least one value
HasValues(options) == \A i \in 1..Len(options) : Len(options[i][2]) >= 1

\* C29: in every AST reached by parsing and by the mutation calls, every
\* option, at the top level or inside a block, has a value list of length at
\* least 1; and add_option called with no values raises ValueError and leaves
\* the AST unchanged.
C29_OptionsHaveValues ==
    /\ [](/\ HasValues(ast[2])
          /\ \A b \in 1..Len(ast[3]) : HasValues(ast[3][b][2]))
    /\ [][(lastOp'.op = "add_option" /\ lastOp'.items[2] = <<>>)
              => (err' = "ValueError" /\ ast' = ast)]_vars

\* add_option was called with a valid name and no values, for a block of an
\* AST that holds an option in that block
C29_Witness ==
    /\ lastOp.op = "add_option" /\ lastOp.items[1] = OptX /\ lastOp.items[2] = <<>>
    /\ err = "ValueError"
    /\ \E b \in 1..Len(ast[3]) : ast[3][b][2] # <<>>

----------------------------------------------------------------------------
(* Specification SpecReg: plugin classes are loaded (their metaclass calls *)
(* register_all), and the lookup, dispatch and disable functions of        *)
(* registration.py are called in any order.                                *)

RegInit == LexIdle /\ ParserIdle /\ RegistrationInit /\ DaemonIdle

\* _PluginMeta.__init__ of a plugin class: register_all(cls)
LoadPlugin ==
    /\ lastCall = NoCall
    /\ \E cls \in Classes \ loaded :
          /\ SetGlobals(RegisterAll(Globals, cls))
          /\ loaded' = loaded \cup {cls}
          /\ lastCall' = Call("register_all", [cls |-> cls], <<>>, NoError, NoPlugin)
    /\ UNCHANGED <<lexVars, parserVars, daemonVars>>

\* run_option_hooks(parser, disable_missing)
CallRunOptionHooks ==
    /\ lastCall = NoCall
    /\ \E parser \in ParsedConfigs, disable_missing \in BOOLEAN :
       \E fail \in 0..CountOptions(parser) :
       \E r \in {RunOptionHooks(Globals, parser, disable_missing, fail)} :
          /\ SetGlobals(r.g)
          /\ lastCall' = Call("run_option_hooks",
                              [parser |-> parser, disable_missing |-> disable_missing],
                              r.calls, r.error, NoPlugin)
    /\ UNCHANGED <<loaded, lexVars, parserVars, daemonVars>>

\* the classes in the call chain of an event
ChainClasses(event) ==
    {c \in Classes : \E i \in DOMAIN DictGet(event_hooks, event, <<>>) :
                        event_hooks[event][i][2].cls = c}

\* run_event_hooks(event, task)
CallRunEventHooks ==
    /\ lastCall = NoCall
    /\ \E event \in EVENT_VALS \cup {"task_stop"} :
       \E behave \in [ChainClasses(event) -> Outcomes] :
       \E r \in {RunEventHooks(Globals, event, behave)} :
          /\ SetGlobals(r.g)
          /\ lastCall' = Call("run_event_hooks", [event |-> event, behave |-> behave],
                              r.calls, [NoError EXCEPT !.kind = r.exc], NoPlugin)
    /\ UNCHANGED <<loaded, lexVars, parserVars, daemonVars>>

\* get_command_hook(command, task_active)
CallGetCommandHook ==
    /\ lastCall = NoCall
    /\ \E command \in {CmdP, CmdQ}, task_active \in BOOLEAN :
       \E r \in {GetCommandHook(Globals, command, task_active)} :
          /\ SetGlobals(r.g)
          /\ lastCall' = Call("get_command_hook",
                              [command |-> command, task_active |-> task_active],
                              <<>>, NoError, r.result)
    /\ UNCHANGED <<loaded, lexVars, parserVars, daemonVars>>

\* Plugin.disable(): disable_plugin_instance on an instance a registry holds
CallDisable ==
    /\ lastCall = NoCall
    /\ \E plugin \in LiveInstances :
          /\ created[plugin.cls] <= MaxInstances
          /\ SetGlobals(DisablePluginInstance(Globals, plugin))
          /\ lastCall' = Call("disable", [plugin |-> plugin], <<>>, NoError, NoPlugin)
    /\ UNCHANGED <<loaded, lexVars, parserVars, daemonVars>>

\* the caller takes what the call returned or raised
Return ==
    /\ lastCall # NoCall
    /\ lastCall' = NoCall
    /\ UNCHANGED <<registered, option_hooks, command_hooks, event_hooks, created, loaded,
                   lexVars, parserVars, daemonVars>>

RegNext ==
    \/ LoadPlugin
    \/ CallRunOptionHooks
    \/ CallRunEventHooks
    \/ CallGetCommandHook
    \/ CallDisable
    \/ Return

SpecReg == RegInit /\ [][RegNext]_vars

----------------------------------------------------------------------------
(* Specification SpecDispatch: the plugins P, Q and R are loaded and        *)
(* run_option_hooks is called on configurations of up to two blocks.       *)

\* a plugin module is imported: the metaclass registers the class
DispatchLoad ==
    /\ lastCall = NoCall
    /\ \E cls \in DispatchClasses \ loaded :
          /\ SetGlobals(RegisterAll(Globals, cls))
          /\ loaded' = loaded \cup {cls}
          /\ lastCall' = Call("register_all", [cls |-> cls], <<>>, NoError, NoPlugin)
    /\ UNCHANGED <<lexVars, parserVars, daemonVars>>

\* run_option_hooks(parser, disable_missing)
DispatchRun ==
    /\ lastCall = NoCall
    /\ \E parser \in DispatchConfigs, disable_missing \in BOOLEAN :
       \E fail \in 0..CountOptions(parser) :
       \E r \in {RunOptionHooks(Globals, parser, disable_missing, fail)} :
          /\ SetGlobals(r.g)
          /\ lastCall' = Call("run_option_hooks",
                              [parser |-> parser, disable_missing |-> disable_missing],
                              r.calls, r.error, NoPlugin)
    /\ UNCHANGED <<loaded, lexVars, parserVars, daemonVars>>

DispatchNext == DispatchLoad \/ DispatchRun \/ Return

SpecDispatch == RegInit /\ [][DispatchNext]_vars

----------------------------------------------------------------------------
(* Specification SpecDaemon: the supervisor from Focusd(task).run() to its  *)
(* return, statement by statement, with signal handlers that interrupt it, *)
(* and its two children as processes that exit at some time.               *)

DaemonInit ==
    /\ LexIdle
    /\ ParserIdle
    /\ RegistrationInit
    /\ RunnerIdle
    /\ ServerIdle
    /\ \E uid \in Uids, root_plugins \in BOOLEAN : sup = FocusdInit(uid, root_plugins)
    /\ children = [task_runner |-> NotStarted, command_server |-> NotStarted]
    /\ pipe = [end \in {1, 2} |-> [trm |-> FALSE, closed |-> FALSE]]
    /\ task = [active |-> TRUE, pidfile |-> TRUE]
    /\ supLog = <<>>

\* the frame the supervisor executes
Top == sup.stack[Len(sup.stack)]

\* the supervisor is at the given statement
At(pc) == sup.stack # <<>> /\ Top.pc = pc

\* the supervisor with its top frame changed
WithTop(frame) == [sup EXCEPT !.stack[Len(sup.stack)] = frame]

\* the supervisor moves on to the given statement
Goto(pc) == WithTop([Top EXCEPT !.pc = pc])

\* the supervisor returns from the function of its top frame
Return_(s) == [s EXCEPT !.stack = SubSeq(@, 1, Len(@) - 1)]

\* Process.is_alive()
IsAlive(proc) == children[proc].state \in {"alive", "signalled"}

\* Focusd.running without its test of the task
Running_IgnoreTask == ~sup.exited /\ task.pidfile

\* Focusd.running
Running == ~sup.exited /\ task.pidfile /\ task.active

\* Focusd.run: self._command_server.start()
RunStartCommandServer ==
    /\ At("start_command_server")
    /\ children' = [children EXCEPT !.command_server = [state |-> "alive", uid |-> sup.uid]]
    /\ sup' = Goto(NextStatement("start_command_server", sup.start_cmd_srv))
    /\ supLog' = Append(supLog, <<"start_command_server">>)
    /\ UNCHANGED <<pipe, task, libVars, runnerVars, serverVars>>

\* Focusd.run: self._drop_privs(); os.setuid(owner) succeeds for root
RunDropPrivs ==
    /\ At("drop_privs")
    /\ sup' = [Goto(NextStatement("drop_privs", sup.start_cmd_srv))
                  EXCEPT !.uid = IF sup.uid = "root" THEN "owner" ELSE @]
    /\ supLog' = Append(supLog, <<"drop_privs">>)
    /\ UNCHANGED <<children, pipe, task, libVars, runnerVars, serverVars>>

\* Focusd.run: self._task_runner.start(); the child inherits the uid
RunStartTaskRunner ==
    /\ At("start_task_runner")
    /\ children' = [children EXCEPT !.task_runner = [state |-> "alive", uid |-> sup.uid]]
    /\ sup' = Goto(NextStatement("start_task_runner", sup.start_cmd_srv))
    /\ supLog' = Append(supLog, <<"start_task_runner">>)
    /\ UNCHANGED <<pipe, task, libVars, runnerVars, serverVars>>

\* Focusd.run: self._reg_sighandlers()
RunRegSighandlers ==
    /\ At("reg_sighandlers")
    /\ sup' = [Goto(NextStatement("reg_sighandlers", sup.start_cmd_srv))
                  EXCEPT !.handlers = TRUE]
    /\ UNCHANGED <<children, pipe, task, supLog, libVars, runnerVars, serverVars>>

\* Focusd.run: the loop is left when the daemon is not running, and
\* self.shutdown() is called
RunLoop ==
    /\ At("loop")
    /\ ~Running
    /\ sup' = [Goto("return") EXCEPT !.stack = Append(@, Frame("if_exited"))]
    /\ UNCHANGED <<children, pipe, task, supLog, libVars, runnerVars, serverVars>>

\* Focusd.run returns and the supervisor process ends
RunReturn ==
    /\ At("return")
    /\ sup' = Return_(sup)
    /\ UNCHANGED <<children, pipe, task, supLog, libVars, runnerVars, serverVars>>

\* a signal handler of _reg_sighandlers is called between two statements
DeliverSignal ==
    /\ sup.stack # <<>>
    /\ sup.handlers
    /\ \E sig \in sup.pending :
          sup' = [sup EXCEPT !.pending = @ \ {sig},
                             !.stack = Append(@, Frame("if_exited"))]
    /\ UNCHANGED <<children, pipe, task, supLog, libVars, runnerVars, serverVars>>

\* Focusd.shutdown: if not self._exited
ShutdownIfExited ==
    /\ At("if_exited")
    /\ sup' = IF sup.exited THEN Return_(sup) ELSE Goto("set_exited")
    /\ UNCHANGED <<children, pipe, task, supLog, libVars, runnerVars, serverVars>>

\* Focusd.shutdown: self._exited = True
ShutdownSetExited ==
    /\ At("set_exited")
    /\ sup' = [Goto("if_task_runner_alive") EXCEPT !.exited = TRUE]
    /\ UNCHANGED <<children, pipe, task, supLog, libVars, runnerVars, serverVars>>

\* Focusd.shutdown: if self._task_runner.is_alive()
ShutdownIfTaskRunnerAlive ==
    /\ At("if_task_runner_alive")
    /\ sup' = WithTop([Top EXCEPT !.task_runner_alive = IsAlive("task_runner"),
                                  !.pc = IF IsAlive("task_runner") THEN "terminate"
                                         ELSE "shutdown_pipe"])
    /\ UNCHANGED <<children, pipe, task, supLog, libVars, runnerVars, serverVars>>

\* Focusd.shutdown: self._task_runner.terminate() sends SIGTERM to the child
ShutdownTerminate ==
    /\ At("terminate")
    /\ children' = [children EXCEPT !.task_runner.state =
                        IF @ = "alive" THEN "signalled" ELSE @]
    /\ sup' = Goto("if_command_server_alive")
    /\ supLog' = Append(supLog, <<"terminate">>)
    /\ UNCHANGED <<pipe, task, libVars, runnerVars, serverVars>>

\* the statement after the test of the command server
AfterCommandServerTest_Join(alive) == "if_task_runner_still_alive"

\* Focusd.shutdown: if self._command_server.is_alive()
AfterCommandServerTest(alive) ==
    IF alive THEN "if_task_runner_still_alive" ELSE "shutdown_pipe"

ShutdownIfCommandServerAlive ==
    /\ At("if_command_server_alive")
    /\ sup' = WithTop([Top EXCEPT !.command_server_alive = IsAlive("command_server"),
                                  !.pc = AfterCommandServerTest(IsAlive("command_server"))])
    /\ UNCHANGED <<children, pipe, task, supLog, libVars, runnerVars, serverVars>>

\* Focusd.shutdown: the second if self._task_runner.is_alive()
ShutdownIfTaskRunnerStillAlive ==
    /\ At("if_task_runner_still_alive")
    /\ sup' = Goto(IF IsAlive("task_runner") THEN "join" ELSE "shutdown_pipe")
    /\ UNCHANGED <<children, pipe, task, supLog, libVars, runnerVars, serverVars>>

\* Focusd.shutdown: self._task_runner.join() returns when the child has exited
ShutdownJoin ==
    /\ At("join")
    /\ ~IsAlive("task_runner")
    /\ sup' = Goto("shutdown_pipe")
    /\ supLog' = Append(supLog, <<"join">>)
    /\ UNCHANGED <<children, pipe, task, libVars, runnerVars, serverVars>>

\* the log entry of an operation on an end of the pipe
PipeEvent(op, end) == IF end = 1 THEN <<op, "1">> ELSE <<op, "2">>

\* _shutdown_pipe: end.send_bytes('TRM'); on a closed end it raises IOError
\* and the loop goes on with the next end
ShutdownPipeSend ==
    /\ At("shutdown_pipe")
    /\ IF pipe[Top.end].closed
       THEN /\ sup' = IF Top.end = 2 THEN Goto("task_stop")
                       ELSE WithTop([Top EXCEPT !.end = 2])
            /\ UNCHANGED <<pipe, supLog>>
       ELSE /\ pipe' = [pipe EXCEPT ![Top.end].trm = TRUE]
            /\ sup' = Goto("close")
            /\ supLog' = Append(supLog, PipeEvent("send_bytes", Top.end))
    /\ UNCHANGED <<children, task, libVars, runnerVars, serverVars>>

\* _shutdown_pipe: end.close()
ShutdownPipeClose ==
    /\ At("close")
    /\ pipe' = [pipe EXCEPT ![Top.end].closed = TRUE]
    /\ sup' = IF Top.end = 2 THEN Goto("task_stop")
               ELSE WithTop([Top EXCEPT !.end = 2, !.pc = "shutdown_pipe"])
    /\ supLog' = Append(supLog, PipeEvent("close", Top.end))
    /\ UNCHANGED <<children, task, libVars, runnerVars, serverVars>>

\* Focusd.shutdown: self._task.stop() removes the active-task marker
ShutdownTaskStop ==
    /\ At("task_stop")
    /\ task' = [task EXCEPT !.active = FALSE]
    /\ sup' = Return_(sup)
    /\ supLog' = Append(supLog, <<"task_stop">>)
    /\ UNCHANGED <<children, pipe, libVars, runnerVars, serverVars>>

\* a child process shuts down: it stops the task and exits, and SIGCHLD is
\* raised in the supervisor
ChildExits ==
    /\ sup.stack # <<>>
    /\ \E proc \in {"task_runner", "command_server"} :
          /\ IsAlive(proc)
          /\ children' = [children EXCEPT ![proc].state = "exited"]
    /\ task' = [task EXCEPT !.active = FALSE]
    /\ sup' = [sup EXCEPT !.pending = IF sup.handlers THEN @ \cup {"SIGCHLD"} ELSE @]
    /\ UNCHANGED <<pipe, supLog, libVars, runnerVars, serverVars>>

\* SIGTERM is sent to the supervisor
SendSigterm ==
    /\ sup.stack # <<>>
    /\ sup.handlers
    /\ sup.sigterms < MaxSigterm
    /\ sup' = [sup EXCEPT !.pending = @ \cup {"SIGTERM"}, !.sigterms = @ + 1]
    /\ UNCHANGED <<children, pipe, task, supLog, libVars, runnerVars, serverVars>>

\* the active-task marker is removed by another process (focus stop)
MarkerRemoved ==
    /\ sup.stack # <<>>
    /\ task.active
    /\ task' = [task EXCEPT !.active = FALSE]
    /\ UNCHANGED <<sup, children, pipe, supLog, libVars, runnerVars, serverVars>>

DaemonNext ==
    \/ RunStartCommandServer \/ RunDropPrivs \/ RunStartTaskRunner
    \/ RunRegSighandlers \/ RunLoop \/ RunReturn \/ DeliverSignal
    \/ ShutdownIfExited \/ ShutdownSetExited \/ ShutdownIfTaskRunnerAlive
    \/ ShutdownTerminate \/ ShutdownIfCommandServerAlive
    \/ ShutdownIfTaskRunnerStillAlive \/ ShutdownJoin \/ ShutdownPipeSend
    \/ ShutdownPipeClose \/ ShutdownTaskStop
    \/ ChildExits \/ SendSigterm \/ MarkerRemoved

SpecDaemon == DaemonInit /\ [][DaemonNext]_vars

----------------------------------------------------------------------------
(* Claims about option dispatch and disabling.                             *)

RECURSIVE BlockEntries(_)
\* the options of the blocks, each with its block, in block-list order
BlockEntries(blocks) ==
    IF blocks = <<>> THEN <<>>
    ELSE [i \in 1..Len(blocks[1][2]) |->
             [option |-> blocks[1][2][i][1], block |-> blocks[1][1],
              values |-> blocks[1][2][i][2]]]
         \o BlockEntries(Tail(blocks))

\* the option occurrences of a parsed configuration in dispatch order
DispatchOrder(parser) ==
    [i \in 1..Len(parser.options) |->
        [option |-> parser.options[i][1], block |-> None, values |-> parser.options[i][2]]]
    \o BlockEntries(parser.blocks)

\* the key an option occurrence or a parse_option call is looked up under
EntryKey(e) == IF e.block # None THEN BlockKey(e.block, e.option) ELSE e.option

HasHandler(key) == key \in DOMAIN option_hooks.actions

NoDuplicates(key) ==
    HasHandler(key) /\ ~DictGet(option_hooks.type_info[key], "allow_duplicates", TRUE)

\* the last parse_option call of the pass raised
HandlerRaised == lastCall.error.kind \in {"Value mismatch", "Invalid value"}

\* the names of the plugins whose parse_option the pass called
Invoked == {Name(lastCall.calls[i].obj.cls) : i \in DOMAIN lastCall.calls}

\* the names of the loaded plugins that declare options
OptionPlugins == {Name(c) : c \in {x \in loaded : Options(x) # <<>>}}

\* C7: when run_option_hooks reaches an option whose key has no handler, it
\* raises InvalidTaskConfig naming that option and its block; no handler is
\* called for that or any later option, and no disabled flag changes.
C7_UnregisteredKeyFailsDispatch ==
    (lastCall.op = "run_option_hooks") =>
        \A d \in {DispatchOrder(lastCall.args.parser)} :
        \A i \in 1..Len(d) :
            (/\ ~HasHandler(EntryKey(d[i]))
             /\ \A j \in 1..(i - 1) : HasHandler(EntryKey(d[j])))
            => /\ lastCall.error # NoError
               /\ Len(lastCall.calls) < i
               /\ DisabledNames(Globals) = lastCall.before
               /\ (Len(lastCall.calls) = i - 1 /\ ~HandlerRaised)
                  => lastCall.error = [kind |-> "Invalid option", option |-> d[i].option,
                                       block |-> d[i].block]

\* an option without handler stopped a pass that had called a handler before
\* it, while an option with a handler came later and plugins were to be disabled
C7_Witness ==
    /\ lastCall.op = "run_option_hooks"
    /\ lastCall.error.kind = "Invalid option"
    /\ lastCall.args.disable_missing
    /\ loaded = Classes
    /\ \E d \in {DispatchOrder(lastCall.args.parser)} :
       \E i \in 1..Len(d) : i > Len(lastCall.calls) + 1 /\ HasHandler(EntryKey(d[i]))

\* C8: a key registered with allow_duplicates=False has its handler called
\* at most once in a pass; its second occurrence raises InvalidTaskConfig
\* naming the option and block; and the error is only ever raised for a key
\* that occurred before in the same pass.
C8_SecondOccurrenceRaises ==
    (lastCall.op = "run_option_hooks") =>
        \A d \in {DispatchOrder(lastCall.args.parser)} :
        /\ \A a, b \in DOMAIN lastCall.calls :
              (a < b /\ EntryKey(lastCall.calls[a]) = EntryKey(lastCall.calls[b]))
              => ~NoDuplicates(EntryKey(lastCall.calls[a]))
        /\ \A k \in 1..Len(d) :
              (/\ NoDuplicates(EntryKey(d[k]))
               /\ \E j \in 1..(k - 1) : EntryKey(d[j]) = EntryKey(d[k])
               /\ Len(lastCall.calls) = k - 1
               /\ ~HandlerRaised)
              => lastCall.error = [kind |-> "Duplicate option", option |-> d[k].option,
                                   block |-> d[k].block]
        /\ (lastCall.error.kind = "Duplicate option")
              => \E k \in 1..Len(d) :
                    /\ k = Len(lastCall.calls) + 1
                    /\ \E j \in 1..(k - 1) : EntryKey(d[j]) = EntryKey(d[k])

\* the duplicate error was raised for an option of a block, after its first
\* occurrence had been handled
C8_Witness ==
    /\ lastCall.op = "run_option_hooks"
    /\ lastCall.error.kind = "Duplicate option"
    /\ lastCall.error.block # None
    /\ lastCall.calls # <<>>

\* C9: after a pass that returned, with disable_missing every option plugin
\* that was not called is disabled and no called plugin is newly disabled;
\* without disable_missing no disabled flag has changed.
C9_DisableMissing ==
    (lastCall.op = "run_option_hooks" /\ lastCall.error = NoError) =>
        IF lastCall.args.disable_missing
        THEN /\ \A n \in OptionPlugins \ Invoked : n \in DisabledNames(Globals)
             /\ \A n \in Invoked : n \in DisabledNames(Globals) => n \in lastCall.before
        ELSE DisabledNames(Globals) = lastCall.before

\* a pass with disable_missing called one plugin, which stays enabled, and
\* disabled another
C9_Witness ==
    /\ lastCall.op = "run_option_hooks"
    /\ lastCall.error = NoError
    /\ lastCall.args.disable_missing
    /\ \E n \in Invoked : n \notin DisabledNames(Globals)
    /\ \E n \in OptionPlugins \ Invoked :
          n \in DisabledNames(Globals) /\ n \notin lastCall.before

\* no event method was called on, and no command lookup returned, a plugin
\* that was disabled when the call was made
DisabledStaysOut ==
    /\ (lastCall.op = "run_event_hooks")
          => \A i \in DOMAIN lastCall.calls : Name(lastCall.calls[i].cls) \notin lastCall.before
    /\ (lastCall.op = "get_command_hook")
          => (lastCall.result = NoPlugin \/ Name(lastCall.result.cls) \notin lastCall.before)

\* C10: a disabled plugin stays disabled under every call, its event methods
\* are not run again and get_command_hook does not return it.
C10_DisabledIsMonotonic ==
    /\ []DisabledStaysOut
    /\ [][DisabledNames(Globals) \subseteq DisabledNames(Globals')]_vars

\* an event ran for a chain that holds a disabled plugin and an enabled one
C10_Witness ==
    /\ lastCall.op = "run_event_hooks"
    /\ lastCall.calls # <<>>
    /\ \E n \in lastCall.before :
          \E i \in DOMAIN event_hooks[lastCall.args.event] :
              event_hooks[lastCall.args.event][i][1] = n

\* C11: a run_option_hooks pass that raises nothing has called parse_option
\* exactly once per option occurrence, the top-level options first in document
\* order, then each block's options in the order of the block list, each call
\* on an instance of the class registered for the occurrence's key, with the
\* option name, the block name (None at the top level) and the values in order.
C11_DispatchInDocumentOrder ==
    (lastCall.op = "run_option_hooks" /\ lastCall.error = NoError) =>
        \A d \in {DispatchOrder(lastCall.args.parser)} :
            /\ Len(lastCall.calls) = Len(d)
            /\ \A i \in 1..Len(d) :
                  /\ lastCall.calls[i].option = d[i].option
                  /\ lastCall.calls[i].block = d[i].block
                  /\ lastCall.calls[i].values = d[i].values
                  /\ HasHandler(EntryKey(d[i]))
                  /\ lastCall.calls[i].obj.cls = option_hooks.actions[EntryKey(d[i])].cls

\* a pass without error over the blocks B and A, in this order, the option of
\* B with two values
C11_Witness ==
    /\ lastCall.op = "run_option_hooks"
    /\ lastCall.error = NoError
    /\ lastCall.args.parser = [options |-> <<>>,
                               blocks |-> <<<<BlockB, <<OptX12>>>>, <<BlockA, <<OptX1>>>>>>]
    /\ Len(lastCall.calls) = 2

\* the call chain of the event of the last run_event_hooks call
EventChain == DictGet(event_hooks, lastCall.args.event, <<>>)

\* the plugin of a chain entry was not disabled when the call was made
EnabledBefore(entry) == entry[1] \notin lastCall.before

\* every chain of event_hooks is kept and grows at its end only
ChainsAppendOnly ==
    \A e \in DOMAIN event_hooks :
        /\ e \in DOMAIN event_hooks'
        /\ Len(event_hooks[e]) <= Len(event_hooks'[e])
        /\ SubSeq(event_hooks'[e], 1, Len(event_hooks[e])) = event_hooks[e]

\* C12: run_event_hooks for one of the three events calls the event method
\* of the plugins registered for the event one after the other in the order
\* of their registration, leaving out exactly the disabled ones: the calls
\* made are the enabled plugins of the chain from its start, all of them when
\* the call returns; the chain of an event keeps the order of registration.
C12_EventChainInOrder ==
    /\ [](lastCall.op = "run_event_hooks" /\ lastCall.args.event \in EVENT_VALS
             => \A expected \in {SelectSeq(EventChain, EnabledBefore)} :
                  /\ Len(lastCall.calls) <= Len(expected)
                  /\ lastCall.error = NoError => Len(lastCall.calls) = Len(expected)
                  /\ \A i \in 1..Len(lastCall.calls) :
                        Name(lastCall.calls[i].cls) = expected[i][1])
    /\ [][ChainsAppendOnly]_vars

\* the first of two plugins of the chain was disabled and only the second
\* one was called
C12_Witness ==
    /\ lastCall.op = "run_event_hooks"
    /\ lastCall.args.event \in EVENT_VALS
    /\ Len(EventChain) = 2
    /\ EventChain[1][1] \in lastCall.before
    /\ Len(lastCall.calls) = 1
    /\ Name(lastCall.calls[1].cls) = EventChain[2][1]

\* C13: an exception raised by the event method of a plugin does not reach
\* the caller of run_event_hooks, and the event method of every later plugin
\* of the chain that is not disabled is called.
C13_RaisingPluginDoesNotAbortChain ==
    (/\ lastCall.op = "run_event_hooks"
     /\ lastCall.args.event \in EVENT_VALS
     /\ \E i \in 1..Len(lastCall.calls) :
           Raised(lastCall.args.behave[lastCall.calls[i].cls]) # "")
    => /\ lastCall.error = NoError
       /\ Len(lastCall.calls) = Len(SelectSeq(EventChain, EnabledBefore))

\* C14: at most one instance of a plugin class is ever constructed, and the
\* master registry, the option registry and the command registry hold the
\* same instance of a class, whatever was registered, looked up and disabled.
C14_OneInstancePerClass ==
    /\ \A c \in DispatchClasses : created[c] <= 1
    /\ \A p, q \in LiveInstances : p.cls = q.cls => p = q

\* the names of the top-level options a plugin class declares
TopLevelOptions(cls) ==
    {Options(cls)[i].name :
        i \in {j \in DOMAIN Options(cls) : "block" \notin DOMAIN Options(cls)[j]}}

\* the occurrences of the option of an entry, in the scope of the entry,
\* among the first k entries of a dispatch order
SameScope(d, k, e) ==
    {j \in 1..k : d[j].block = e.block /\ d[j].option = e.option}

\* C37: a top-level option is dispatched only to a handler registered for a
\* top-level option of that name: the plugin whose parse_option is called
\* with no block declares the option at the top level, and the duplicate
\* error is raised for an option only at its second occurrence in its own
\* scope, top-level occurrences of the name block_option not counting
\* against option of block.
C37_TopLevelKeysAreSeparate ==
    (lastCall.op = "run_option_hooks") =>
        \A d \in {DispatchOrder(lastCall.args.parser)} :
        /\ \A i \in DOMAIN lastCall.calls :
              lastCall.calls[i].block = None
              => lastCall.calls[i].option \in TopLevelOptions(lastCall.calls[i].obj.cls)
        /\ (lastCall.error.kind = "Duplicate option")
              => \A k \in {Len(lastCall.calls) + 1} :
                    Cardinality(SameScope(d, k, d[k])) >= 2

----------------------------------------------------------------------------
(* Specification SpecRunner: the task runner process from TaskProcess.run  *)
(* on, statement by statement, with one root event plugin whose event      *)
(* methods may call run_root, the SIGTERM handler that interrupts it, and   *)
(* the command server as the peer that answers the requests.               *)

RunnerInit ==
    /\ LexIdle
    /\ ParserIdle
    /\ RegistrationInit
    /\ SupIdle
    /\ ServerIdle
    /\ runner = TaskRunnerInit
    /\ chan = PipeInit
    /\ runLog = <<>>

\* the frame the task runner executes
RTop == runner.stack[Len(runner.stack)]

\* the task runner is at the given statement of the given function
RAt(fn, pc) == runner.stack # <<>> /\ RTop.fn = fn /\ RTop.pc = pc

\* the stack with the top frame at another statement
RStackAt(pc) == [runner.stack EXCEPT ![Len(runner.stack)].pc = pc]

\* the top frame moves to the statement pc
RGoto(pc) == [runner EXCEPT !.stack = RStackAt(pc)]

\* the top frame moves to the statement pc and calls a function
RCall(pc, frame) == [runner EXCEPT !.stack = Append(RStackAt(pc), frame)]

\* the function of the top frame returns
RReturn == [runner EXCEPT !.stack = SubSeq(@, 1, Len(@) - 1)]

\* TaskProcess.running
RRunning == ~runner.exited /\ runner.parent_alive

\* TaskProcess.run with a _run that runs the events without a test of
\* self._task.elapsed
RunnerWhile_NoElapsedTest ==
    /\ RAt("run", "while")
    /\ runner' = IF ~RRunning THEN RCall("return", RFrame("shutdown", "if_exited", "False"))
                  ELSE RCall("while", RFrame("_run_events", "if_ran", "False"))
    /\ UNCHANGED <<chan, runLog, task, sup, children, pipe, supLog, libVars, serverVars>>

\* TaskProcess.run: while self.running, TaskRunner._run, and self.shutdown()
\* after the loop, which does not return: it raises SystemExit
RunnerWhile ==
    /\ RAt("run", "while")
    /\ runner' = IF ~RRunning THEN RCall("return", RFrame("shutdown", "if_exited", "False"))
                  ELSE IF runner.elapsed
                  THEN RCall("while", RFrame("shutdown", "if_exited", "False"))
                  ELSE RCall("while", RFrame("_run_events", "if_ran", "False"))
    /\ UNCHANGED <<chan, runLog, task, sup, children, pipe, supLog, libVars, serverVars>>

\* _run_events: if not self._ran_taskstart
RunEventsIfRan ==
    /\ RAt("_run_events", "if_ran")
    /\ runner' = RGoto(IF runner.ran_taskstart THEN "event" ELSE "set_ran")
    /\ UNCHANGED <<chan, runLog, task, sup, children, pipe, supLog, libVars, serverVars>>

\* _run_events: self._ran_taskstart = True
RunEventsSetRan ==
    /\ RAt("_run_events", "set_ran")
    /\ runner' = [RGoto("task_start") EXCEPT !.ran_taskstart = TRUE]
    /\ UNCHANGED <<chan, runLog, task, sup, children, pipe, supLog, libVars, serverVars>>

\* _run_events: registration.run_event_hooks('task_start', self._task)
RunEventsTaskStart ==
    /\ RAt("_run_events", "task_start")
    /\ runner' = RCall("event", RFrame("run_event_hooks", "call", "task_start"))
    /\ UNCHANGED <<chan, runLog, task, sup, children, pipe, supLog, libVars, serverVars>>

\* _run_events: registration.run_event_hooks(event, self._task)
RunEventsEvent ==
    /\ RAt("_run_events", "event")
    /\ runner' = RCall("waitpid",
                       RFrame("run_event_hooks", "call",
                              IF RTop.arg = "True" THEN "task_end" ELSE "task_run"))
    /\ UNCHANGED <<chan, runLog, task, sup, children, pipe, supLog, libVars, serverVars>>

\* _run_events: os.waitpid and return
RunEventsReturn ==
    /\ RAt("_run_events", "waitpid")
    /\ runner' = RReturn
    /\ UNCHANGED <<chan, runLog, task, sup, children, pipe, supLog, libVars, serverVars>>

\* the record of an event method called
Hook(plugin, event) == [plugin |-> plugin, event |-> event, at |-> Len(runLog)]

\* run_event_hooks: the event method of the next plugin is called; the
\* frame's caller field counts the plugins called
RunEventHooksCall ==
    /\ RAt("run_event_hooks", "call")
    /\ RTop.caller < Len(HookPlugins)
    /\ \E plugin \in {HookPlugins[RTop.caller + 1]} :
          runner' = [runner EXCEPT
              !.stack = Append([@ EXCEPT ![Len(@)].caller = @ + 1],
                               RFrame("method", "body", RTop.arg)),
              !.hooks = IF RTop.arg = "task_run"
                           /\ \E k \in DOMAIN @ : @[k].plugin = plugin
                                                    /\ @[k].event = "task_run"
                        THEN @ ELSE Append(@, Hook(plugin, RTop.arg))]
    /\ UNCHANGED <<chan, runLog, task, sup, children, pipe, supLog, libVars, serverVars>>

\* run_event_hooks: every plugin was called
RunEventHooksReturn ==
    /\ RAt("run_event_hooks", "call")
    /\ RTop.caller = Len(HookPlugins)
    /\ runner' = RReturn
    /\ UNCHANGED <<chan, runLog, task, sup, children, pipe, supLog, libVars, serverVars>>

\* the event method of a root plugin, called by run_event_hooks: it calls
\* self.run_root(command) or returns
PluginMethod ==
    /\ RAt("method", "body")
    /\ \/ runner' = RReturn
       \/ /\ runner.calls < MaxRootCalls
          /\ runner' = [RCall("body", [RFrame("run_root", "acquire", "")
                                          EXCEPT !.caller = runner.calls + 1])
                          EXCEPT !.calls = @ + 1]
    /\ UNCHANGED <<chan, runLog, task, sup, children, pipe, supLog, libVars, serverVars>>

\* run_root: self._rlock.acquire(); the lock is reentrant and the process
\* has one thread
RunRootAcquire ==
    /\ RAt("run_root", "acquire")
    /\ runner' = [RGoto("send") EXCEPT !.rlock = @ + 1]
    /\ UNCHANGED <<chan, runLog, task, sup, children, pipe, supLog, libVars, serverVars>>

\* run_root: self._cmd_pipe.send_bytes(SHL, command); IOError on a closed end
RunRootSend ==
    /\ RAt("run_root", "send")
    /\ IF chan.closed
       THEN /\ runner' = [runner EXCEPT !.stack[Len(runner.stack)].pc = "release",
                                         !.stack[Len(runner.stack)].failed = TRUE]
            /\ UNCHANGED <<chan, runLog>>
       ELSE /\ chan' = [chan EXCEPT !.requests = Append(@, Message(RTop.caller, "SHL"))]
            /\ runLog' = Append(runLog, [op |-> "send", by |-> RTop.caller,
                                         msg |-> Message(RTop.caller, "SHL")])
            /\ runner' = RGoto("recv")
    /\ UNCHANGED <<task, sup, children, pipe, supLog, libVars, serverVars>>

\* run_root: res = self._cmd_pipe.recv_bytes(), which waits for a message;
\* TRM makes run_root shut the process down
RunRootRecv ==
    /\ RAt("run_root", "recv")
    /\ chan.replies # <<>>
    /\ chan' = [chan EXCEPT !.replies = Tail(@)]
    /\ runLog' = Append(runLog, [op |-> "recv", by |-> RTop.caller,
                                 msg |-> Head(chan.replies)])
    /\ runner' = [runner EXCEPT !.stack[Len(runner.stack)].pc = "release",
                                 !.stack[Len(runner.stack)].res = Head(chan.replies).data,
                                 !.stack[Len(runner.stack)].failed =
                                     Head(chan.replies).data = "TRM"]
    /\ UNCHANGED <<task, sup, children, pipe, supLog, libVars, serverVars>>

\* run_root: finally self._rlock.release(), then return res == 'OK' or go on
\* to self.shutdown(skip_hooks=True)
RunRootRelease ==
    /\ RAt("run_root", "release")
    /\ runner' = IF RTop.failed THEN [RGoto("shutdown") EXCEPT !.rlock = @ - 1]
                  ELSE [RReturn EXCEPT !.rlock = @ - 1,
                                       !.returns = Append(@, [caller |-> RTop.caller,
                                                              res |-> RTop.res,
                                                              value |-> RTop.res = "OK"])]
    /\ UNCHANGED <<chan, runLog, task, sup, children, pipe, supLog, libVars, serverVars>>

\* run_root: self.shutdown(skip_hooks=True)
RunRootShutdown ==
    /\ RAt("run_root", "shutdown")
    /\ runner' = RCall("return", RFrame("shutdown", "if_exited", "True"))
    /\ UNCHANGED <<chan, runLog, task, sup, children, pipe, supLog, libVars, serverVars>>

\* run_root: return False
RunRootReturn ==
    /\ RAt("run_root", "return")
    /\ runner' = [RReturn EXCEPT !.returns = Append(@, [caller |-> RTop.caller,
                                                        res |-> RTop.res,
                                                        value |-> FALSE])]
    /\ UNCHANGED <<chan, runLog, task, sup, children, pipe, supLog, libVars, serverVars>>

\* TaskRunner.shutdown without its test of self._exited
RShutdownIfExited_NoTest ==
    /\ RAt("shutdown", "if_exited")
    /\ runner' = RGoto("set_exited")
    /\ UNCHANGED <<chan, runLog, task, sup, children, pipe, supLog, libVars, serverVars>>

\* TaskRunner.shutdown: if not self._exited
RShutdownIfExited ==
    /\ RAt("shutdown", "if_exited")
    /\ runner' = IF runner.exited THEN RReturn ELSE RGoto("set_exited")
    /\ UNCHANGED <<chan, runLog, task, sup, children, pipe, supLog, libVars, serverVars>>

\* TaskRunner.shutdown: self._exited = True; if not skip_hooks
RShutdownSetExited ==
    /\ RAt("shutdown", "set_exited")
    /\ runner' = [RGoto(IF RTop.arg = "True" THEN "shutdown_pipe" ELSE "hooks")
                     EXCEPT !.exited = TRUE]
    /\ UNCHANGED <<chan, runLog, task, sup, children, pipe, supLog, libVars, serverVars>>

\* TaskRunner.shutdown: self._run_events(shutdown=True)
RShutdownHooks ==
    /\ RAt("shutdown", "hooks")
    /\ runner' = RCall("shutdown_pipe", RFrame("_run_events", "if_ran", "True"))
    /\ UNCHANGED <<chan, runLog, task, sup, children, pipe, supLog, libVars, serverVars>>

\* TaskRunner.shutdown: _shutdown_pipe(self._pipe) sends TRM through the
\* process's two ends, to the command server and to its own reading end,
\* and closes them
RShutdownPipe ==
    /\ RAt("shutdown", "shutdown_pipe")
    /\ chan' = IF chan.closed THEN chan
               ELSE [chan EXCEPT !.requests = Append(@, Message(0, "TRM")),
                                 !.replies = Append(@, Message(0, "TRM")),
                                 !.closed = TRUE]
    /\ runner' = RGoto("task_stop")
    /\ UNCHANGED <<runLog, task, sup, children, pipe, supLog, libVars, serverVars>>

\* TaskRunner.shutdown: self._task.stop()
RShutdownTaskStop ==
    /\ RAt("shutdown", "task_stop")
    /\ task' = [task EXCEPT !.active = FALSE]
    /\ runner' = RGoto("raise")
    /\ UNCHANGED <<chan, runLog, sup, children, pipe, supLog, libVars, serverVars>>

\* TaskRunner.shutdown: raise SystemExit, which no frame catches: the
\* finally clauses release the lock and the process exits
RShutdownExit ==
    /\ RAt("shutdown", "raise")
    /\ runner' = [runner EXCEPT !.stack = <<>>, !.rlock = 0]
    /\ UNCHANGED <<chan, runLog, task, sup, children, pipe, supLog, libVars, serverVars>>

\* the SIGTERM handler of _register_sigterm is called between two
\* statements: self.shutdown()
RDeliverSigterm ==
    /\ runner.stack # <<>>
    /\ runner.sigterms < MaxSigterm
    /\ runner' = [runner EXCEPT !.sigterms = @ + 1,
                                 !.stack = Append(@, RFrame("shutdown", "if_exited", "False"))]
    /\ UNCHANGED <<chan, runLog, task, sup, children, pipe, supLog, libVars, serverVars>>

\* the supervisor process ends
ParentDies ==
    /\ runner.stack # <<>>
    /\ runner.parent_alive
    /\ runner' = [runner EXCEPT !.parent_alive = FALSE]
    /\ UNCHANGED <<chan, runLog, task, sup, children, pipe, supLog, libVars, serverVars>>

\* the task's duration has passed
TimeElapses ==
    /\ runner.stack # <<>>
    /\ ~runner.elapsed
    /\ runner' = [runner EXCEPT !.elapsed = TRUE]
    /\ UNCHANGED <<chan, runLog, task, sup, children, pipe, supLog, libVars, serverVars>>

\* the command server takes the next message: it answers a request with OK
\* or FAIL and stops reading at TRM
ServerAnswers ==
    /\ chan.serving
    /\ chan.requests # <<>>
    /\ IF Head(chan.requests).data = "TRM"
       THEN chan' = [chan EXCEPT !.requests = Tail(@), !.serving = FALSE]
       ELSE \E res \in {"OK", "FAIL"} :
               chan' = [chan EXCEPT !.requests = Tail(@),
                                    !.replies = Append(@, Message(Head(chan.requests).caller,
                                                                  res))]
    /\ UNCHANGED <<runner, runLog, task, sup, children, pipe, supLog, libVars, serverVars>>

\* the command server or the supervisor shuts the pipe down: TRM reaches the
\* task runner's end
PeerSendsTrm ==
    /\ chan.serving
    /\ chan' = [chan EXCEPT !.replies = Append(@, Message(0, "TRM")), !.serving = FALSE]
    /\ UNCHANGED <<runner, runLog, task, sup, children, pipe, supLog, libVars, serverVars>>

RunnerNext ==
    \/ RunnerWhile
    \/ RunEventsIfRan \/ RunEventsSetRan \/ RunEventsTaskStart \/ RunEventsEvent
    \/ RunEventsReturn \/ RunEventHooksCall \/ RunEventHooksReturn \/ PluginMethod
    \/ RunRootAcquire \/ RunRootSend \/ RunRootRecv \/ RunRootRelease
    \/ RunRootShutdown \/ RunRootReturn
    \/ RShutdownIfExited \/ RShutdownSetExited \/ RShutdownHooks \/ RShutdownPipe
    \/ RShutdownTaskStop \/ RShutdownExit
    \/ RDeliverSigterm \/ ParentDies \/ TimeElapses \/ ServerAnswers \/ PeerSendsTrm

SpecRunner == RunnerInit /\ [][RunnerNext]_vars

\* the statements of the task runner process
RunnerStep ==
    \/ RunnerWhile
    \/ RunEventsIfRan \/ RunEventsSetRan \/ RunEventsTaskStart \/ RunEventsEvent
    \/ RunEventsReturn \/ RunEventHooksCall \/ RunEventHooksReturn \/ PluginMethod
    \/ RunRootAcquire \/ RunRootSend \/ RunRootRecv \/ RunRootRelease
    \/ RunRootShutdown \/ RunRootReturn
    \/ RShutdownIfExited \/ RShutdownSetExited \/ RShutdownHooks \/ RShutdownPipe
    \/ RShutdownTaskStop \/ RShutdownExit

\* the command server finds at its loop check that the supervisor has ended
\* and shuts down
OrphanServerExits == ~runner.parent_alive /\ PeerSendsTrm

\* the task runner and the command server under fair scheduling: each
\* process goes on while it has a statement to execute
SpecRunnerFair ==
    /\ RunnerInit
    /\ [][RunnerNext]_vars
    /\ WF_vars(RunnerStep)
    /\ WF_vars(ServerAnswers)
    /\ WF_vars(OrphanServerExits)

----------------------------------------------------------------------------
(* Specification SpecFocusd: the supervisor of SpecDaemon together with the *)
(* task runner and the command server of SpecRunner, joined by the signals *)
(* and the pipe between them, under fair scheduling.                       *)

FocusdProcessesInit ==
    /\ LexIdle
    /\ ParserIdle
    /\ RegistrationInit
    /\ ServerIdle
    /\ \E root_plugins \in BOOLEAN : sup = FocusdInit("root", root_plugins)
    /\ children = [task_runner |-> NotStarted, command_server |-> NotStarted]
    /\ pipe = [end \in {1, 2} |-> [trm |-> FALSE, closed |-> FALSE]]
    /\ task = [active |-> TRUE, pidfile |-> TRUE]
    /\ supLog = <<>>
    /\ runner = TaskRunnerInit
    /\ chan = PipeInit
    /\ runLog = <<>>

\* the statements of the supervisor that act on the supervisor alone
SupervisorStep ==
    \/ RunStartCommandServer \/ RunDropPrivs \/ RunStartTaskRunner
    \/ RunRegSighandlers \/ RunLoop \/ RunReturn \/ DeliverSignal
    \/ ShutdownIfExited \/ ShutdownSetExited \/ ShutdownIfTaskRunnerAlive
    \/ ShutdownTerminate \/ ShutdownIfCommandServerAlive
    \/ ShutdownIfTaskRunnerStillAlive \/ ShutdownJoin
    \/ ShutdownPipeClose \/ ShutdownTaskStop

\* _shutdown_pipe in the supervisor: end.send_bytes('TRM'); what is sent
\* through the first end arrives at the command server's end, what is sent
\* through the second at the task runner's
PipeSendTrm ==
    /\ At("shutdown_pipe")
    /\ IF pipe[Top.end].closed
       THEN /\ sup' = IF Top.end = 2 THEN Goto("task_stop")
                       ELSE WithTop([Top EXCEPT !.end = 2])
            /\ UNCHANGED <<pipe, supLog, chan>>
       ELSE /\ pipe' = [pipe EXCEPT ![Top.end].trm = TRUE]
            /\ sup' = Goto("close")
            /\ supLog' = Append(supLog, PipeEvent("send_bytes", Top.end))
            /\ chan' = IF Top.end = 1
                       THEN [chan EXCEPT !.requests = Append(@, Message(0, "TRM"))]
                       ELSE [chan EXCEPT !.replies = Append(@, Message(0, "TRM"))]
    /\ UNCHANGED <<children, task, runner, runLog, libVars, serverVars>>

\* a statement of the started task runner; run_root is a method of the
\* plugins only when root event plugins are registered
TaskRunnerStep ==
    /\ IsAlive("task_runner")
    /\ RunnerStep
    /\ sup.root_plugins \/ runner'.calls = runner.calls

\* the SIGTERM of terminate() reaches the task runner
TerminateArrives ==
    /\ children.task_runner.state = "signalled"
    /\ runner.sigterms = 0
    /\ RDeliverSigterm

\* the started command server takes the next message
CommandServerStep == IsAlive("command_server") /\ ServerAnswers

\* a child process that has ended is found dead by is_alive() and join(),
\* and SIGCHLD is raised in the supervisor
ChildEnds ==
    /\ \E proc \in {"task_runner", "command_server"} :
          /\ IsAlive(proc)
          /\ IF proc = "task_runner" THEN runner.stack = <<>> ELSE ~chan.serving
          /\ children' = [children EXCEPT ![proc].state = "exited"]
    /\ sup' = [sup EXCEPT !.pending = IF sup.handlers /\ sup.stack # <<>>
                                      THEN @ \cup {"SIGCHLD"} ELSE @]
    /\ UNCHANGED <<pipe, task, supLog, libVars, runnerVars, serverVars>>

\* the supervisor process has ended: pid_exists(self._ppid) is false in the
\* children from now on
SupervisorGone ==
    /\ sup.stack = <<>>
    /\ runner.parent_alive
    /\ runner' = [runner EXCEPT !.parent_alive = FALSE]
    /\ UNCHANGED <<chan, runLog, task, sup, children, pipe, supLog, libVars, serverVars>>

\* the started command server finds the supervisor gone and shuts down
OrphanCommandServerExits == IsAlive("command_server") /\ OrphanServerExits

FocusdNext ==
    \/ SupervisorStep
    \/ PipeSendTrm
    \/ TaskRunnerStep
    \/ TerminateArrives
    \/ CommandServerStep
    \/ ChildEnds
    \/ SupervisorGone
    \/ OrphanCommandServerExits
    \/ MarkerRemoved

\* every process goes on while it has a statement to execute, and signals
\* and the exit of a child are noticed; the marker may or may not be removed
SpecFocusd ==
    /\ FocusdProcessesInit
    /\ [][FocusdNext]_vars
    /\ WF_vars(SupervisorStep)
    /\ WF_vars(PipeSendTrm)
    /\ WF_vars(TaskRunnerStep)
    /\ WF_vars(TerminateArrives)
    /\ WF_vars(CommandServerStep)
    /\ WF_vars(ChildEnds)
    /\ WF_vars(SupervisorGone)
    /\ WF_vars(OrphanCommandServerExits)

----------------------------------------------------------------------------
(* Specification SpecElapsed: the task runner of SpecRunner with a living  *)
(* supervisor and a serving command server, and a task whose duration      *)
(* grows minute by minute.                                                 *)

\* most minutes a task lasts, and the total duration set when one is set
MaxMinutes == 1

\* Task.elapsed
Elapsed(total_duration, duration) == total_duration # 0 /\ duration >= total_duration

ElapsedInit ==
    /\ LexIdle
    /\ ParserIdle
    /\ RegistrationInit
    /\ SupProcessIdle
    /\ ServerIdle
    /\ \E total \in {0, MaxMinutes} :
          task = [active |-> TRUE, pidfile |-> TRUE, total_duration |-> total,
                  duration |-> 0]
    /\ runner = TaskRunnerInit
    /\ chan = PipeInit
    /\ runLog = <<>>

\* a minute passes: Task.duration grows, and Task.elapsed with it
MinutePasses ==
    /\ runner.stack # <<>>
    /\ task.duration < MaxMinutes
    /\ task' = [task EXCEPT !.duration = @ + 1]
    /\ runner' = [runner EXCEPT !.elapsed = Elapsed(task.total_duration, task.duration + 1)]
    /\ UNCHANGED <<chan, runLog, sup, children, pipe, supLog, libVars, serverVars>>

\* the statements of the task runner while the command server lives: the
\* command server ends only on the TRM of the task runner, so that no reply
\* is TRM and run_root never takes its failure branch
ElapsedRunnerStep ==
    \/ RunnerWhile
    \/ RunEventsIfRan \/ RunEventsSetRan \/ RunEventsTaskStart \/ RunEventsEvent
    \/ RunEventsReturn \/ RunEventHooksCall \/ RunEventHooksReturn \/ PluginMethod
    \/ RunRootAcquire \/ RunRootSend \/ RunRootRecv \/ RunRootRelease
    \/ RShutdownIfExited \/ RShutdownSetExited \/ RShutdownHooks \/ RShutdownPipe
    \/ RShutdownTaskStop \/ RShutdownExit

ElapsedNext ==
    \/ ElapsedRunnerStep
    \/ ServerAnswers
    \/ RDeliverSigterm
    \/ MinutePasses

\* the task runner and the command server go on while they have a statement
\* to execute; time and signals may or may not come
SpecElapsed ==
    /\ ElapsedInit
    /\ [][ElapsedNext]_vars
    /\ WF_vars(ElapsedRunnerStep)
    /\ WF_vars(ServerAnswers)

----------------------------------------------------------------------------
(* Specification SpecCmd: the command server process from TaskProcess.run  *)
(* on: it receives payloads, runs commands and replies.                    *)

\* most bytes of a payload after its first three
MaxTail == 3

\* the command server receives at most this many payloads
MaxMessages == 2

\* the separator byte 0x80
SEP == "|"

SHL == <<"S", "H", "L">>

TRM == <<"T", "R", "M">>

\* the payloads received: an opcode, a cut opcode or nothing, followed by
\* separators and command bytes
Payloads ==
    {op \o tail : op \in {SHL, TRM, <<"S", "H">>, <<>>},
                  tail \in SeqsOver({SEP, "c"}, MaxTail)}

\* the position of the first separator of a byte string, 0 without one
FirstSep(bytes) ==
    IF \E i \in DOMAIN bytes : bytes[i] = SEP
    THEN CHOOSE i \in DOMAIN bytes : bytes[i] = SEP /\ \A j \in 1..(i - 1) : bytes[j] # SEP
    ELSE 0

RECURSIVE Split(_, _)
\* bytes.split(SEP, maxsplit)
Split(bytes, maxsplit) ==
    IF maxsplit = 0 \/ FirstSep(bytes) = 0 THEN <<bytes>>
    ELSE <<SubSeq(bytes, 1, FirstSep(bytes) - 1)>>
         \o Split(SubSeq(bytes, FirstSep(bytes) + 1, Len(bytes)), maxsplit - 1)

\* the test of the shell operation with the number of parts not looked at
IsShell_AnyParts(parts) == parts[1] = SHL /\ Len(parts) >= 2

\* _op == 'SHL' and len(parts) == 2
IsShell(parts) == parts[1] = SHL /\ Len(parts) = 2

\* the results of common.shell_process(command): output or None
ShellResults == {"output", "None"}

CmdInit ==
    /\ LexIdle
    /\ ParserIdle
    /\ RegistrationInit
    /\ SupIdle
    /\ RunnerIdle
    /\ server = CommandServerInit

\* TaskProcess.run: the loop is left when _run() returned False, and the
\* process shuts down
CmdWhile ==
    /\ server.pc = "while"
    /\ server' = [server EXCEPT !.pc = IF server.result THEN "poll" ELSE "shutdown"]
    /\ UNCHANGED <<supVars, runnerVars, libVars>>

\* _process_commands: poll and recv_bytes; nothing is done with an empty
\* payload
CmdRecv ==
    /\ server.pc = "poll"
    /\ server.received < MaxMessages
    /\ \E payload \in Payloads :
          server' = [server EXCEPT !.payload = payload, !.res = "", !.sent = <<>>,
                                   !.received = @ + 1,
                                   !.pc = IF payload # <<>> THEN "split" ELSE "while"]
    /\ UNCHANGED <<supVars, runnerVars, libVars>>

\* _process_commands: the payload is split and the operation carried out:
\* EOFError for TRM, the command run for SHL, a reply sent
CmdProcess ==
    /\ server.pc = "split"
    /\ \E parts \in {Split(server.payload, 2)}, res \in ShellResults :
          IF parts[1] = TRM
          THEN server' = [server EXCEPT !.result = FALSE, !.pc = "while"]
          ELSE IF IsShell(parts) /\ parts[2] # <<>>
          THEN server' = [server EXCEPT !.res = res,
                                        !.sent = Append(@, IF res # "None" THEN "OK"
                                                           ELSE "FAIL"),
                                        !.pc = "while"]
          ELSE server' = [server EXCEPT !.sent = Append(@, "FAIL"), !.pc = "while"]
    /\ UNCHANGED <<supVars, runnerVars, libVars>>

\* TaskProcess.shutdown: the process exits
CmdShutdown ==
    /\ server.pc = "shutdown"
    /\ server' = [server EXCEPT !.pc = "exited"]
    /\ UNCHANGED <<supVars, runnerVars, libVars>>

CmdNext == CmdWhile \/ CmdRecv \/ CmdProcess \/ CmdShutdown

SpecCmd == CmdInit /\ [][CmdNext]_vars

----------------------------------------------------------------------------
(* Specification SpecPrivs: Focusd._drop_privs statement by statement in   *)
(* the supervisor, which runs as root; a call of the system may fail with  *)
(* OSError.                                                                *)

\* the environment variables looked at, "" for one that is not set
EnvNames == {"USER", "SUDO_USER", "LOGNAME"}

\* the environments of the process at the start
Environs == [EnvNames -> {"", "root"}]

\* the statement after a call of the system, when a failed call ends the
\* function
AfterCall_StopOnError(pc, ok) ==
    IF ~ok THEN "umask"
    ELSE IF pc = "setgroups" THEN "setgid"
    ELSE IF pc = "setgid" THEN "setuid"
    ELSE "umask"

\* the statement after a call of the system: OSError is passed over
AfterCall(pc, ok) ==
    IF pc = "setgroups" THEN "setgid"
    ELSE IF pc = "setgid" THEN "setuid"
    ELSE "umask"

\* the environment after os.setuid: USER is set to the owner's name if it
\* is there, the SUDO_ variables and LOGNAME are deleted
UserEnviron(environ, owner) ==
    [k \in EnvNames |-> IF k = "USER" THEN (IF environ[k] # "" THEN owner ELSE "")
                        ELSE ""]

\* the supervisor at the call of _drop_privs: the owner of the task, the
\* credentials of the process, its environment, and whether the owner's
\* entry of the password database was found
DropPrivsInit(owner, environ) ==
    [pc |-> "getpwuid", owner |-> owner, pwd_info |-> FALSE, uid |-> "root",
     gid |-> "root", groups |-> "root", environ |-> environ, umask |-> "0"]

PrivsInit ==
    /\ LexIdle
    /\ ParserIdle
    /\ RegistrationInit
    /\ RunnerIdle
    /\ ServerIdle
    /\ children = [task_runner |-> NotStarted, command_server |-> NotStarted]
    /\ pipe = [end \in {1, 2} |-> [trm |-> FALSE, closed |-> FALSE]]
    /\ task = [active |-> TRUE, pidfile |-> TRUE]
    /\ supLog = <<>>
    /\ \E owner \in Uids, environ \in Environs : sup = DropPrivsInit(owner, environ)

\* _drop_privs: pwd.getpwuid(uid), which raises KeyError for a uid without
\* an entry; the exception leaves the function
PrivsGetpwuid ==
    /\ sup.pc = "getpwuid"
    /\ \E found \in BOOLEAN :
          sup' = [sup EXCEPT !.pwd_info = found,
                             !.pc = IF found THEN "setgroups" ELSE "KeyError"]
    /\ UNCHANGED <<supLog, children, pipe, task, libVars, runnerVars, serverVars>>

\* _drop_privs: os.setgroups(gids)
PrivsSetgroups ==
    /\ sup.pc = "setgroups"
    /\ \E ok \in BOOLEAN :
          /\ sup' = [sup EXCEPT !.groups = IF ok THEN sup.owner ELSE @,
                                !.pc = AfterCall("setgroups", ok)]
          /\ supLog' = Append(supLog, <<"setgroups", ok>>)
    /\ UNCHANGED <<children, pipe, task, libVars, runnerVars, serverVars>>

\* _drop_privs: os.setgid(pwd_info.pw_gid)
PrivsSetgid ==
    /\ sup.pc = "setgid"
    /\ \E ok \in BOOLEAN :
          /\ sup' = [sup EXCEPT !.gid = IF ok THEN sup.owner ELSE @,
                                !.pc = AfterCall("setgid", ok)]
          /\ supLog' = Append(supLog, <<"setgid", ok>>)
    /\ UNCHANGED <<children, pipe, task, libVars, runnerVars, serverVars>>

\* _drop_privs: os.setuid(uid) and, after it, the environment variables
PrivsSetuid ==
    /\ sup.pc = "setuid"
    /\ \E ok \in BOOLEAN :
          /\ sup' = [sup EXCEPT !.uid = IF ok THEN sup.owner ELSE @,
                                !.environ = IF ok THEN UserEnviron(@, sup.owner) ELSE @,
                                !.pc = AfterCall("setuid", ok)]
          /\ supLog' = Append(supLog, <<"setuid", ok>>)
    /\ UNCHANGED <<children, pipe, task, libVars, runnerVars, serverVars>>

\* _drop_privs: os.umask(022)
PrivsUmask ==
    /\ sup.pc = "umask"
    /\ sup' = [sup EXCEPT !.umask = "022", !.pc = "return"]
    /\ UNCHANGED <<supLog, children, pipe, task, libVars, runnerVars, serverVars>>

PrivsNext == PrivsGetpwuid \/ PrivsSetgroups \/ PrivsSetgid \/ PrivsSetuid \/ PrivsUmask

SpecPrivs == PrivsInit /\ [][PrivsNext]_vars

----------------------------------------------------------------------------
(* Specification SpecTask: one Task object of a command-line process and   *)
(* the files it shares with the daemon: load, start and stop are called in *)
(* any order, the daemon crashes or exits, a new process starts.           *)

\* what the pid file holds: the pid of a live process, the pid of no
\* process, or no integer (an empty file: the daemon was killed between
\* the creation of the file and the write)
PidContents == {"live", "dead", "garbage"}

\* no call of the Task object yet
NoTaskCall == [op |-> "", pre |-> <<>>, cleaned |-> <<>>, log |-> <<>>, result |-> ""]

\* the fields of a task that the calls record
Snapshot(t) == [loaded |-> t.loaded, active |-> t.active, pidfile |-> t.pidfile, pid |-> t.pid]

\* Task.__init__
NewTask(active, pidfile, pid) ==
    [active |-> active, pidfile |-> pidfile, pid |-> pid, loaded |-> FALSE,
     call |-> NoTaskCall]

\* _clean with the marker left in place
Clean_KeepMarker(t) == [t EXCEPT !.loaded = FALSE]

\* Task._clean: the active file is removed and the object reset
Clean(t) == [t EXCEPT !.active = FALSE, !.loaded = FALSE]

\* Task._clean_prior: a pid file that holds the pid of no process is removed
\* and the task cleaned; int() of no integer raises ValueError and the task
\* is cleaned
CleanPrior(t) ==
    IF t.loaded /\ t.pidfile
    THEN IF t.pid = "garbage" THEN Clean(t)
         ELSE IF t.pid = "dead" THEN Clean([t EXCEPT !.pidfile = FALSE])
         ELSE t
    ELSE t

\* what Task.load finds in the active file and the task configuration: all
\* in order, the name or the start time missing, an error it catches, or a
\* configuration that run_option_hooks rejects with InvalidTaskConfig
LoadOutcomes == {"ok", "missing_key", "error", "InvalidTaskConfig"}

\* what Task.start finds in the task directory
ConfigOutcomes == {"ok", "TaskNotFound", "InvalidTaskConfig"}

\* what daemon.shell_focusd does: exit code 0, another exit code, ValueError
\* for failed passwords, KeyboardInterrupt, NoPluginsRegistered
ShellOutcomes == {"started", "failed", "ValueError", "KeyboardInterrupt", "NoPluginsRegistered"}

\* the task after a call, with the record of the call: the task before
\* _clean_prior and after it, the steps taken and the value returned or the
\* exception raised
Called(t, op, pre, cleaned, log, result) ==
    [t EXCEPT !.call = [op |-> op, pre |-> Snapshot(pre), cleaned |-> Snapshot(cleaned),
                        log |-> log, result |-> result]]

\* Task.load: it returns False at a missing key, and InvalidTaskConfig is
\* not among the exceptions it catches
Load(t, found) ==
    IF found = "missing_key" THEN Called(t, "load", t, t, <<"parse_config">>, "False")
    ELSE IF found = "InvalidTaskConfig"
    THEN Called(t, "load", t, t, <<"parse_config">>, "InvalidTaskConfig")
    ELSE LET parsed == IF found = "ok" THEN [t EXCEPT !.loaded = TRUE] ELSE Clean(t)
             r == CleanPrior(parsed)
         IN  Called(r, "load", parsed, r, <<"parse_config", "_clean_prior">>,
                    IF r.loaded THEN "True" ELSE "False")

\* Task.start from the saving of the active file on
StartDaemon(t, cleaned, shell) ==
    LET saved == [cleaned EXCEPT !.loaded = TRUE, !.active = TRUE]
        log == <<"_save_active_file", "shell_focusd">>
    IN    IF shell = "started"
          THEN Called(IF saved.pidfile THEN saved
                      ELSE [saved EXCEPT !.pidfile = TRUE, !.pid = "live"],
                      "start", t, cleaned, log, "True")
          ELSE IF shell = "NoPluginsRegistered"
          THEN Called(saved, "start", t, cleaned, log, "True")
          ELSE IF shell = "failed"
          THEN Called(Clean(saved), "start", t, cleaned, log, "DaemonFailStart")
          ELSE Called(Clean(saved), "start", t, cleaned, log, "False")

\* Task.start
Start(t, config, shell) ==
    LET cleaned == CleanPrior(t)
    IN IF cleaned.loaded THEN Called(cleaned, "start", t, cleaned, <<>>, "ActiveTask")
       ELSE IF config # "ok" THEN Called(cleaned, "start", t, cleaned, <<>>, config)
       ELSE StartDaemon(t, cleaned, shell)

\* Task.stop
Stop(t) ==
    LET cleaned == CleanPrior(t)
    IN IF ~cleaned.loaded THEN Called(cleaned, "stop", t, cleaned, <<>>, "NoActiveTask")
       ELSE Called(Clean(cleaned), "stop", t, cleaned, <<>>, "None")

TaskInit ==
    /\ LexIdle
    /\ ParserIdle
    /\ RegistrationInit
    /\ SupProcessIdle
    /\ RunnerIdle
    /\ ServerIdle
    /\ \E active \in BOOLEAN, pid \in PidContents \cup {""} :
          task = NewTask(active, pid # "", pid)

TaskLoad ==
    /\ \E found \in LoadOutcomes :
          /\ found # "error" => task.active
          /\ task' = Load(task, found)
    /\ UNCHANGED <<sup, children, pipe, supLog, runnerVars, serverVars, libVars>>

TaskStart ==
    /\ \E config \in ConfigOutcomes, shell \in ShellOutcomes : task' = Start(task, config, shell)
    /\ UNCHANGED <<sup, children, pipe, supLog, runnerVars, serverVars, libVars>>

TaskStop ==
    /\ task' = Stop(task)
    /\ UNCHANGED <<sup, children, pipe, supLog, runnerVars, serverVars, libVars>>

\* a new command-line process creates its Task object
TaskNew ==
    /\ task' = NewTask(task.active, task.pidfile, task.pid)
    /\ UNCHANGED <<sup, children, pipe, supLog, runnerVars, serverVars, libVars>>

\* the daemon is killed: its pid file stays; daemonize may not have written
\* the pid into it yet
DaemonCrashes ==
    /\ task.pidfile /\ task.pid = "live"
    /\ \E pid \in {"dead", "garbage"} : task' = [task EXCEPT !.pid = pid]
    /\ UNCHANGED <<sup, children, pipe, supLog, runnerVars, serverVars, libVars>>

\* the daemon shuts down: Task.stop in its process removes the marker and
\* the atexit function of daemonize the pid file
DaemonExits ==
    /\ task.pidfile /\ task.pid = "live"
    /\ task' = [task EXCEPT !.pidfile = FALSE, !.pid = "", !.active = FALSE]
    /\ UNCHANGED <<sup, children, pipe, supLog, runnerVars, serverVars, libVars>>

TaskNext == TaskLoad \/ TaskStart \/ TaskStop \/ TaskNew \/ DaemonCrashes \/ DaemonExits

SpecTask == TaskInit /\ [][TaskNext]_vars

\* the positions in the blocks list of the blocks of that name
BlocksNamed(blocks, name) == {i \in DOMAIN blocks : blocks[i][1] = name}

\* C35: add_option(b, name, values) for an existing block b appends the
\* option at the end of the option list of the block named b and leaves
\* every other block and the top-level options as they were, after any
\* sequence of add_block and remove_block calls.
C35_AddOptionToNamedBlock ==
    [][(/\ lastOp'.op = "add_option"
        /\ lastOp'.items[3] # None
        /\ RE_NAME(lastOp'.items[1]) /\ lastOp'.items[2] # <<>>
        /\ BlocksNamed(ast[3], lastOp'.items[3]) # {})
          => \E i \in BlocksNamed(ast[3], lastOp'.items[3]) :
                /\ err' = ""
                /\ ast' = [ast EXCEPT ![3][i][2] =
                              Append(@, <<lastOp'.items[1], lastOp'.items[2]>>)]]_vars

\* the last call was a readstream that raised ParseError
ParseFailed == lastOp.op = "readstream" /\ err = "ParseError"

\* C36: after a parse that failed with ParseError the block index map is
\* empty: add_block(n) succeeds for every valid name n, and add_option and
\* remove_option naming a block raise ValueError and leave the blocks list
\* as it was.
C36_FailedParseClearsBlockMap ==
    /\ [](ParseFailed => block_map = EmptyMap)
    /\ [][(ParseFailed /\ lastOp'.op = "add_block" /\ RE_NAME(lastOp'.items[1]))
             => (err' = "" /\ ast'[3] = Append(ast[3], <<lastOp'.items[1], <<>>>>))]_vars
    /\ [][(/\ ParseFailed
           /\ \/ lastOp'.op = "add_option" /\ lastOp'.items[3] # None
                    /\ RE_NAME(lastOp'.items[1]) /\ lastOp'.items[2] # <<>>
              \/ lastOp'.op = "remove_option" /\ lastOp'.items[2] # None)
             => (err' = "ValueError" /\ ast' = ast)]_vars

----------------------------------------------------------------------------
(* Claims about the supervisor.                                            *)

\* the positions of a log entry
Positions(e) == {i \in DOMAIN supLog : supLog[i] = e}

\* the entry is logged, and logged before every occurrence of the other one
Before(e, f) == Positions(e) # {} /\ \A i \in Positions(e), j \in Positions(f) : i < j

\* C15: when the command server is to be started, Focusd.run starts it first,
\* drops the privileges after that and before it starts the task runner,
\* and starts the task runner last; when it is not to be started, neither
\* the start of the command server nor the privilege drop happens.  Each
\* of the three steps happens at most once.
C15_StartupOrder ==
    /\ \A e \in {<<"start_command_server">>, <<"drop_privs">>, <<"start_task_runner">>} :
          Cardinality(Positions(e)) <= 1
    /\ sup.start_cmd_srv =>
          /\ Positions(<<"drop_privs">>) # {} =>
                Before(<<"start_command_server">>, <<"drop_privs">>)
          /\ Positions(<<"start_task_runner">>) # {} =>
                /\ Before(<<"drop_privs">>, <<"start_task_runner">>)
                /\ Before(<<"start_command_server">>, <<"start_task_runner">>)
    /\ ~sup.start_cmd_srv =>
          /\ Positions(<<"start_command_server">>) = {}
          /\ Positions(<<"drop_privs">>) = {}
    /\ At("loop") => Positions(<<"start_task_runner">>) # {}

\* the supervisor started all it had to start, the command server included
C15_Witness ==
    /\ sup.start_cmd_srv
    /\ At("loop")
    /\ supLog = <<<<"start_command_server">>, <<"drop_privs">>, <<"start_task_runner">>>>

\* C16: the task runner is forked by a supervisor that has the uid of the
\* task owner, whatever uid the supervisor was started with and whether or
\* not event plugins that need root are registered.
C16_TaskRunnerHasOwnerUid ==
    children.task_runner.state # "initial" => children.task_runner.uid = "owner"

\* C17: Focusd.shutdown sends TRM through both ends of the pipe and closes
\* them before it sends the termination signal to the task runner.
C17_PipeShutBeforeTerminate ==
    Positions(<<"terminate">>) # {} =>
        \A end \in {"1", "2"} :
            /\ Before(<<"send_bytes", end>>, <<"terminate">>)
            /\ Before(<<"close", end>>, <<"terminate">>)

\* C18: a shutdown() that found the task runner and the command server alive
\* removes the active-task marker only when the task runner has exited; a
\* shutdown() that found the command server not alive does not wait for the
\* task runner.
C18_WaitsForTaskRunner ==
    /\ (At("task_stop") /\ Top.task_runner_alive /\ Top.command_server_alive)
          => ~IsAlive("task_runner")
    /\ (At("if_task_runner_still_alive") \/ At("join")) => Top.command_server_alive

\* a shutdown() that found both children alive and has returned from join()
\* is about to remove the marker
C18_Witness ==
    /\ At("task_stop")
    /\ Top.task_runner_alive
    /\ Top.command_server_alive
    /\ Positions(<<"join">>) # {}

\* the calls of the system attempted by _drop_privs, in order
Attempts == [i \in DOMAIN supLog |-> supLog[i][1]]

\* C25: _drop_privs attempts setgroups, then setgid, then setuid: the calls
\* attempted are always the first of these three in this order, and when
\* the function is past os.setuid all three were attempted, whichever of
\* them failed.
C25_DropOrder ==
    /\ \E n \in 0..3 : Attempts = SubSeq(<<"setgroups", "setgid", "setuid">>, 1, n)
    /\ sup.pc \in {"umask", "return"} => Len(Attempts) = 3
    /\ sup.pc = "setuid" => Len(Attempts) = 2

\* setgroups and setgid failed, setuid was attempted and succeeded
C25_Witness ==
    /\ sup.pc = "return"
    /\ supLog = <<<<"setgroups", FALSE>>, <<"setgid", FALSE>>, <<"setuid", TRUE>>>>
    /\ sup.uid = "owner"

----------------------------------------------------------------------------
(* Claims about the task runner.                                           *)

\* the run_root call of a log entry has received its reply before entry k
Received(caller, i, k) ==
    \E j \in (i + 1)..(k - 1) : runLog[j].op = "recv" /\ runLog[j].by = caller

\* C19: at most one run_root request is in flight: after a run_root call has
\* sent its request and until it has received the reply, no other run_root
\* call sends or receives, and a reply OK or FAIL that a call reads answers
\* the request of that call.
C19_OneRequestInFlight ==
    /\ \A i \in DOMAIN runLog, k \in DOMAIN runLog :
          (runLog[i].op = "send" /\ i < k /\ runLog[k].by # runLog[i].by)
              => Received(runLog[i].by, i, k)
    /\ \A k \in DOMAIN runLog :
          (runLog[k].op = "recv" /\ runLog[k].msg.data # "TRM")
              => runLog[k].msg.caller = runLog[k].by

\* a run_root call has read TRM from the pipe before the event method of
\* the record was called
TrmReadBefore(hook) ==
    \E i \in 1..hook.at : runLog[i].op = "recv" /\ runLog[i].msg.data = "TRM"

\* C21: run_root returns True exactly when the reply it read is OK; after
\* FAIL it returns False and does not shut the task runner down; after TRM
\* or an I/O error it does not return, no task_end method is called
\* afterwards, and the process has sent TRM and closed the pipe and removed
\* the marker when it has exited.
C21_RunRootReplies ==
    /\ \A k \in DOMAIN runner.returns :
          /\ runner.returns[k].value <=> runner.returns[k].res = "OK"
          /\ runner.returns[k].res \in {"OK", "FAIL"}
    /\ \A k \in DOMAIN runner.stack :
          (runner.stack[k].fn = "run_root" /\ runner.stack[k].res = "FAIL")
              => ~runner.stack[k].failed
    /\ \A k \in DOMAIN runner.hooks :
          runner.hooks[k].event = "task_end" => ~TrmReadBefore(runner.hooks[k])
    /\ runner.stack = <<>> => chan.closed /\ ~task.active

\* C22: under fair scheduling, after the supervisor has ended the task
\* runner and the command server eventually exit.
C22_OrphansExit == ~runner.parent_alive ~> (runner.stack = <<>> /\ ~chan.serving)

\* the positions in runner.hooks of the calls of the event method of a plugin
HookCalls(plugin, event) ==
    {k \in DOMAIN runner.hooks :
        runner.hooks[k].plugin = plugin /\ runner.hooks[k].event = event}

\* C30: in a task runner the task_start hooks run at most once, and always
\* before the first task_run or task_end hook is called, also when the
\* process shuts down with hooks before it completed one task_run iteration.
C30_TaskStartFirst ==
    /\ \A p \in DOMAIN HookPlugins :
          Cardinality(HookCalls(HookPlugins[p], "task_start")) <= 1
    /\ \A k \in DOMAIN runner.hooks :
          runner.hooks[k].event \in {"task_run", "task_end"}
              => \A p \in DOMAIN HookPlugins :
                    \E j \in 1..(k - 1) : j \in HookCalls(HookPlugins[p], "task_start")

\* C31: in a task runner the task_end hooks run at most once, whatever the
\* interleaving of SIGTERM, elapsed duration, parent death and run_root
\* failure; and a shutdown call made after the exited flag was set, also one
\* made by a failing run_root inside a task_end hook, does nothing: it
\* returns to its caller with the hooks, the pipe and the task as they were.
C31_TaskEndOnce ==
    /\ [](\A p \in DOMAIN HookPlugins :
             Cardinality(HookCalls(HookPlugins[p], "task_end")) <= 1)
    /\ [][(/\ RAt("shutdown", "if_exited") /\ runner.exited
           /\ runner'.stack # runner.stack
           /\ Len(runner'.stack) <= Len(runner.stack))
              => (/\ runner' = RReturn
                  /\ UNCHANGED <<chan, task, runLog>>)]_vars

\* both task_end hooks were called, and a run_root call made inside one of
\* them read TRM and returned False after its shutdown call returned
C31_Witness ==
    /\ runner.exited
    /\ \A p \in DOMAIN HookPlugins : HookCalls(HookPlugins[p], "task_end") # {}
    /\ \E k \in DOMAIN runner.returns :
          /\ runner.returns[k].res = "TRM"
          /\ ~runner.returns[k].value
          /\ \E h \in DOMAIN runner.hooks :
                /\ runner.hooks[h].event = "task_end"
                /\ TrmReadBefore(runner.hooks[h])

\* every process of the daemon has ended, the task runner after it called
\* the task_end hooks
DaemonStopped ==
    /\ sup.stack = <<>>
    /\ runner.stack = <<>>
    /\ \A p \in DOMAIN HookPlugins : HookCalls(HookPlugins[p], "task_end") # {}
    /\ ~IsAlive("task_runner")
    /\ ~IsAlive("command_server")

FindsElapsed == RAt("run", "while") /\ RRunning /\ runner.elapsed

\* the task runner has called the task_end hooks, sent TRM and closed the
\* pipe, removed the marker and exited
ShutDownWithHooks ==
    /\ runner.stack = <<>>
    /\ \A p \in DOMAIN HookPlugins : HookCalls(HookPlugins[p], "task_end") # {}
    /\ chan.closed
    /\ ~chan.serving \/ \E i \in DOMAIN chan.requests : chan.requests[i].data = "TRM"
    /\ ~task.active

----------------------------------------------------------------------------
(* Claims about the Task object.                                           *)

\* the call started with the task loaded and a pid file that does not hold
\* the pid of a live process
StalePidFile ==
    /\ task.call.op \in {"load", "start", "stop"}
    /\ task.call.op = "load" => task.call.log = <<"parse_config", "_clean_prior">>
    /\ task.call.pre.loaded
    /\ task.call.pre.pidfile
    /\ task.call.pre.pid # "live"

\* C23: a load, start or stop of a loaded task whose pid file holds the pid
\* of no live process removes the pid file and the marker and leaves the
\* task not loaded, and the start does not raise ActiveTask.
C23_StaleLockDiscarded ==
    StalePidFile =>
        /\ ~task.call.cleaned.pidfile
        /\ ~task.call.cleaned.active
        /\ ~task.call.cleaned.loaded
        /\ task.call.result # "ActiveTask"

\* C24: Task.start saves the active file before it shells the daemon; when
\* the daemon then fails to start, the marker is removed and the task not
\* loaded as start returns False or raises DaemonFailStart; after a start
\* that did not return True a marker is left only if start wrote none.
C24_MarkerRolledBack ==
    task.call.op = "start" =>
        /\ task.call.log \in {<<>>, <<"_save_active_file", "shell_focusd">>}
        /\ task.call.result \in {"False", "DaemonFailStart"}
              => task.call.log # <<>> /\ ~task.active /\ ~task.loaded
        /\ (task.call.result # "True" /\ task.active)
              => task.call.log = <<>> /\ task.call.cleaned.active

\* a start whose daemon exited with an error raised DaemonFailStart after the
\* marker was written
C24_Witness ==
    /\ task.call.op = "start"
    /\ task.call.result = "DaemonFailStart"
    /\ task.call.log = <<"_save_active_file", "shell_focusd">>
    /\ ~task.call.cleaned.active
    /\ ~task.active

\* the last call was a load that did not find the marker and the task
\* configuration in order
LoadedCorrupt ==
    /\ task.call.op = "load"
    /\ ~(task.call.log = <<"parse_config", "_clean_prior">> /\ task.call.pre.loaded)

\* C34: Task.load leaves no task loaded from corrupt state: when the marker
\* is missing, unparsable or lacks the name or the start time, or when the
\* task configuration cannot be parsed or dispatched to the plugins, load
\* returns False, the task is not loaded and the marker file is removed.
C34_CorruptLoadDiscards ==
    LoadedCorrupt => (task.call.result = "False" /\ ~task.loaded /\ ~task.active)

----------------------------------------------------------------------------
(* Claims about the command server.                                        *)

\* the bytes of the payload before its first separator
Opcode ==
    IF FirstSep(server.payload) = 0 THEN server.payload
    ELSE SubSeq(server.payload, 1, FirstSep(server.payload) - 1)

\* the payload is SHL, one separator and a command of at least one byte
ShellFrame ==
    /\ Len(server.payload) > 4
    /\ SubSeq(server.payload, 1, 4) = SHL \o <<SEP>>
    /\ \A i \in 5..Len(server.payload) : server.payload[i] # SEP

\* the command server has dealt with a payload that is not empty
Handled == server.pc \in {"while", "poll", "shutdown", "exited"} /\ server.payload # <<>>

\* C20: for a payload that is not empty, the command server runs the command
\* of a frame made of SHL, the separator and a command, and of no other
\* payload, and replies OK exactly when the command ran with success; for
\* the opcode TRM it sends nothing and leaves its loop; in every other case
\* it replies FAIL and goes on; it never sends two replies for a payload.
C20_ReplyPerMessage ==
    /\ Len(server.sent) <= 1
    /\ Handled =>
          /\ server.res # "" <=> ShellFrame
          /\ server.sent = <<"OK">> <=> server.res = "output"
          /\ Opcode = TRM <=> server.sent = <<>>
          /\ Opcode = TRM <=> ~server.result
          /\ (Opcode # TRM /\ server.res # "output") => server.sent = <<"FAIL">>
    /\ server.pc \in {"shutdown", "exited"} => ~server.result

\* the command server replied FAIL to a frame with two separators and then
\* OK to a frame whose command ran
C20_Witness ==
    /\ Handled
    /\ server.received = 2
    /\ server.payload = SHL \o <<SEP, "c">>
    /\ server.sent = <<"OK">>
    /\ server.pc = "poll"

====
